---------------------------- MODULE Spec2Model ----------------------------
(***************************************************************************)
(* A model of the ferndev client libraries:                                *)
(*   - @ferndev/core  callAction          (src/packages/core/index.ts)     *)
(*   - @ferndev/woo   cart facade, stores (src/packages/woo/src/cart.ts,   *)
(*                                         src/unnamed/part_001)           *)
(*   - fern-woo       cart facade         (src/packages/fern-woo/src/      *)
(*                                         cart.ts)                        *)
(* One action of the model is one synchronous run of the JavaScript event  *)
(* loop: the code from a call, or from the resumption of an await, up to   *)
(* the next await that really suspends, or to the return.                  *)
(***************************************************************************)
EXTENDS Integers, Sequences, FiniteSets, TLC

(***************************************************************************)
(* Bounds of the model.                                                    *)
(***************************************************************************)
\* number of callAction invocations in one behaviour
MaxCalls == 2

(***************************************************************************)
(* JavaScript values, tagged by their type.  An object is a function from  *)
(* its own keys to values; a missing key is a key outside the DOMAIN.      *)
(***************************************************************************)
JUndefined == [t |-> "undefined"]
JNull == [t |-> "null"]
JStr(s) == [t |-> "string", v |-> s]
JNum(n) == [t |-> "number", v |-> n]
JBool(b) == [t |-> "boolean", v |-> b]
JBigInt(n) == [t |-> "bigint", v |-> n]
JArr(seq) == [t |-> "array", v |-> seq]
JObj(f) == [t |-> "object", v |-> f]
JFormData(entries) == [t |-> "formdata", v |-> entries]
EmptyMap == [k \in {} |-> JNull]

\* typeof x
TypeOf(x) ==
    CASE x.t \in {"null", "array", "object", "formdata"} -> "object"
      [] OTHER -> x.t

\* the ToBoolean conversion of the language
Truthy(x) ==
    CASE x.t \in {"undefined", "null"} -> FALSE
      [] x.t = "boolean" -> x.v
      [] x.t \in {"number", "bigint"} -> x.v # 0
      [] x.t = "string" -> x.v # ""
      [] OTHER -> TRUE

\* { ...x }: the own enumerable properties of x as a fresh mapping
Spread(x) ==
    CASE x.t = "object" -> x.v
      [] x.t = "array" -> [k \in {ToString(n - 1) : n \in DOMAIN x.v} |->
                             x.v[CHOOSE n \in DOMAIN x.v : ToString(n - 1) = k]]
      [] OTHER -> EmptyMap

\* f with key k set to value x (added when missing)
WithKey(f, k, x) == [j \in (DOMAIN f) \cup {k} |-> IF j = k THEN x ELSE f[j]]

(***************************************************************************)
(* Errors: the values a throw or a rejected promise carries.               *)
(***************************************************************************)
MkError(name, message) == [isError |-> TRUE, name |-> name, message |-> message]
MkStatusError(name, message, status) ==
    [isError |-> TRUE, name |-> name, message |-> message, status |-> status]
\* what controller.abort() makes the pending fetch or body read reject with
AbortError == MkError("AbortError", "signal is aborted without reason")
\* the platform's network failure
NetworkError == MkError("TypeError", "Failed to fetch")
\* res.json() on a body that is not JSON
JsonSyntaxError == MkError("SyntaxError", "Unexpected token < in JSON")
\* JSON.stringify on a value it cannot serialize
\* a rejection value that is no Error: a string, as a wrapped fetch may throw
ThrownString == [isError |-> FALSE, value |-> "offline"]
StringifyError == MkError("TypeError", "Do not know how to serialize a BigInt")

(***************************************************************************)
(* ActionResult: the two shapes callAction builds.                         *)
(***************************************************************************)
OkResult(data) == [status |-> "ok", data |-> data]
ErrorResult(message, status) ==
    [status |-> "error", error |-> [message |-> message, status |-> status]]
\* the value of a promise that has not settled
NoResult == [status |-> "pending"]

(***************************************************************************)
(* @ferndev/core callAction                                               *)
(***************************************************************************)
DefaultTimeout == 30000

\* options: {} or { timeout }
NoOptions == [k \in {} |-> 0]
TimeoutValues == {5000}
OptionsValues == {NoOptions} \cup {[timeout |-> n] : n \in TimeoutValues}

\* const timeout = options.timeout || 30000
MutTimeoutIgnored(options) == DefaultTimeout
EffectiveTimeout(options) ==
    IF "timeout" \in DOMAIN options /\ options.timeout # 0
    THEN options.timeout
    ELSE DefaultTimeout

ActionNames == {"login"}
NonceValues == {"", "n1"}
\* the two objects a caller keeps and may pass to more than one call, as
\* they are when the caller has built them
CallerMap == JObj([product_id |-> JNum(123)])
CallerForm == JFormData(<< <<"file", "f1">> >>)
ArgsValues ==
    { JObj(EmptyMap),
      CallerMap,
      CallerForm,
      JStr("raw"),
      JNull,
      JNum(7),
      JObj([big |-> JBigInt(1)]) }

\* whether JSON.stringify throws on x
RECURSIVE Unserializable(_)
Unserializable(x) ==
    CASE x.t = "bigint" -> TRUE
      [] x.t = "object" -> \E k \in DOMAIN x.v : Unserializable(x.v[k])
      [] x.t = "array" -> \E n \in DOMAIN x.v : Unserializable(x.v[n])
      [] OTHER -> FALSE

\* JSON.stringify(x) as the JSON value a parser reads back from the text:
\* keys holding undefined are dropped, undefined in an array becomes null
RECURSIVE Stringify(_)
Stringify(x) ==
    CASE x.t = "object" ->
           JObj([k \in {j \in DOMAIN x.v : x.v[j].t # "undefined"} |-> Stringify(x.v[k])])
      [] x.t = "array" ->
           JArr([n \in DOMAIN x.v |->
                   IF x.v[n].t = "undefined" THEN JNull ELSE Stringify(x.v[n])])
      [] x.t = "formdata" -> JObj(EmptyMap)
      [] OTHER -> x

NoRequest == [sent |-> FALSE]

\* lines 92-112: the object the caller passed as args, after the body was
\* built.  A form payload is appended to in place; of any other value the
\* function only reads (the spread copies, args = {} rebinds the parameter)
ArgsAfter(action, args, nonce) ==
    IF args.t = "formdata"
    THEN JFormData(Append(args.v, <<"action", action>>)
                   \o (IF nonce # ""
                       THEN << <<"_nonce", nonce>>, <<"args[_nonce]", nonce>> >>
                       ELSE << >>))
    ELSE args

\* lines 89-114: the body and headers of the request, or the error thrown
\* while building them.
BuildRequest(action, args, nonce) ==
    IF args.t = "formdata"
    THEN LET withAction == Append(args.v, <<"action", action>>)
             entries == IF nonce # ""
                        THEN withAction \o << <<"_nonce", nonce>>, <<"args[_nonce]", nonce>> >>
                        ELSE withAction
         IN [threw |-> FALSE,
             request |-> [sent |-> TRUE, method |-> "POST",
                          headers |-> {<<"X-Fern-Action", "">>},
                          body |-> JFormData(entries)]]
    ELSE LET checked == IF args.t = "string" THEN JObj(EmptyMap)
                        ELSE IF args.t \in {"null", "undefined"} THEN JObj(EmptyMap)
                        ELSE args
             argsWithNonce == IF nonce # ""
                              THEN JObj(WithKey(Spread(checked), "_nonce", JStr(nonce)))
                              ELSE checked
             payload == JObj([action |-> JStr(action), args |-> argsWithNonce,
                              _nonce |-> JStr(nonce)])
         IN IF Unserializable(payload)
            THEN [threw |-> TRUE, err |-> StringifyError]
            ELSE [threw |-> FALSE,
                  request |-> [sent |-> TRUE, method |-> "POST",
                               headers |-> {<<"Content-Type", "application/json">>,
                                            <<"X-Fern-Action", "">>},
                               body |-> Stringify(payload)]]


HttpStatuses == {200, 404, 503}
\* res.ok
ResponseOk(status) == status >= 200 /\ status <= 299

\* the content-type header of a response, as its ';'-separated parts
\* (<< >> when the header is missing)
ContentTypes ==
    { <<"application/json">>, <<"application/json", "charset=utf-8">>,
      <<"text/html">>, << >> }
\* contentType?.includes('application/json')
MutIsJsonContentTypeExact(ct) == ct = <<"application/json">>
IsJsonContentType(ct) == \E n \in DOMAIN ct : ct[n] = "application/json"

\* what res.json() can parse, what res.text() can read
JsonBodies == { JObj([success |-> JBool(TRUE)]), JNull, JBool(FALSE) }
TextBodies == { JStr(""), JStr("<html>") }

\* what the platform rejects the fetch promise with, short of an abort
FetchFailures == { NetworkError, ThrownString }
\* what reading the body rejects with: res.json() also fails on a body that
\* does not parse
BodyFailures(reading) ==
    IF reading = "json" THEN { JsonSyntaxError, NetworkError } ELSE { NetworkError }

VARIABLES
    hasWindow,       \* typeof window !== 'undefined'
    locationOrigin,  \* new URL(window.location.href).origin
    windowOrigin,    \* window.origin
    calls,           \* the callAction invocations, by number
    nextCall,        \* the number of the next invocation
    callerArgs,      \* the objects the caller holds and passes as args
    cart,            \* the value of the $cart store
    shopConfig,      \* the value of the $shopConfig store
    cartIsLoading,   \* the value of the $cartIsLoading store
    loadingOperationsCount,  \* let loadingOperationsCount of the stores module
    ops,             \* the cart facade operations called, by number
    nextOp,          \* the number of the next operation
    serverCart,      \* the cart the server holds: quantity by item key
    served,          \* the requests the server has answered, in order
    formatted,       \* the last call of formatPrice: its input and outcome
    kept,            \* the result object the caller kept of the last response
    received,        \* the response each invocation received, by number
    fern             \* the fern-woo variant of the facade: its stores and operations

serverVars == <<serverCart, served>>
envVars ==
    <<hasWindow, locationOrigin, windowOrigin, serverVars, formatted, kept, received,
      fern>>
callVars == <<calls, nextCall, callerArgs>>
cartVars == <<cart, shopConfig, cartIsLoading, loadingOperationsCount, ops, nextOp>>
vars == <<envVars, callVars, cartVars>>

Origins == {"https://shop.example", "null"}

CallIds == 1..MaxCalls

\* an invocation that has not been made.  fetches counts the calls of fetch,
\* resStatus is the HTTP status of the response received (0: none yet)
\* cause: what the catch block of the invocation caught, if it ran
NoCause == [caught |-> FALSE]
\* no response yet, and no body of it yet
NoResponse == [arrived |-> FALSE]
NoBody == [sent |-> FALSE]
IdleCall ==
    [pc |-> "idle", settled |-> "pending", result |-> NoResult,
     options |-> NoOptions, timeout |-> 0, timer |-> "none", aborted |-> FALSE,
     action |-> "", args |-> JUndefined, nonce |-> "", request |-> NoRequest,
     fetches |-> 0, resStatus |-> 0, reading |-> "none", cause |-> NoCause]

\* clearTimeout(timeoutId): a timer that has fired or was never armed is left
MutClearTimeoutForgotten(timer) == timer
ClearTimeout(timer) == IF timer = "armed" THEN "cleared" ELSE timer

\* line 137: return { data, status: 'ok' }
MutOkKeepsError(data) ==
    [status |-> "ok", data |-> data, error |-> [message |-> "", status |-> 0]]
OkReturn(data) == OkResult(data)

\* lines 138-160: the catch block, as the way the promise settles
MutCatchRethrows(err, timeout) ==
    IF "status" \in DOMAIN err
    THEN [settled |-> "rejected", result |-> NoResult]
    ELSE [settled |-> "resolved",
          result |-> ErrorResult(IF err.isError THEN err.message ELSE "Request failed", 500)]
MutCatchGenericMessage(err, timeout) ==
    IF err.isError /\ err.name = "AbortError"
    THEN [settled |-> "resolved",
          result |-> ErrorResult("Request timeout after " \o ToString(timeout) \o "ms", 408)]
    ELSE [settled |-> "resolved",
          result |-> ErrorResult("Request failed",
                                 IF "status" \in DOMAIN err /\ err.status # 0
                                 THEN err.status ELSE 500)]
MutCatchDropsStatus(err, timeout) ==
    IF err.isError /\ err.name = "AbortError"
    THEN [settled |-> "resolved",
          result |-> ErrorResult("Request timeout after " \o ToString(timeout) \o "ms", 408)]
    ELSE [settled |-> "resolved",
          result |-> ErrorResult(IF err.isError THEN err.message ELSE "Request failed", 500)]
CatchOutcome(err, timeout) ==
    IF err.isError /\ err.name = "AbortError"
    THEN [settled |-> "resolved",
          result |-> ErrorResult("Request timeout after " \o ToString(timeout) \o "ms", 408)]
    ELSE IF "nullish" \in DOMAIN err
    THEN \* (err as any).status on null or undefined throws out of the catch block
         [settled |-> "rejected", result |-> NoResult]
    ELSE [settled |-> "resolved",
          result |-> ErrorResult(IF err.isError THEN err.message ELSE "Request failed",
                                 IF "status" \in DOMAIN err /\ err.status # 0
                                 THEN err.status ELSE 500)]

\* the invocation c once callAction has returned: its locals are gone
Returned(c, outcome) ==
    [c EXCEPT !.pc = "done", !.settled = outcome.settled, !.result = outcome.result,
              !.action = "", !.args = JUndefined, !.nonce = "", !.request = NoRequest,
              !.reading = "none"]

\* a throw inside the try block: clearTimeout, then the catch block's return
Caught(c, err) ==
    Returned([c EXCEPT !.timer = ClearTimeout(c.timer), !.cause = err],
             CatchOutcome(err, c.timeout))

\* lines 67-72: the browser guard
MutBrowserGuardAfterTimer(c) ==
    Returned([c EXCEPT !.timeout = EffectiveTimeout(c.options), !.timer = "armed"],
             [settled |-> "resolved",
              result |-> ErrorResult("you can only call actions from the browser", 400)])
BrowserGuardReturn(c) ==
    Returned(c, [settled |-> "resolved",
                 result |-> ErrorResult("you can only call actions from the browser", 400)])

\* lines 74-81: the same-origin guard
MutOriginGuardPasses(url, origin) == FALSE
CrossOrigin(url, origin) == url # origin

OriginGuardReturn(c) ==
    Returned(c, [settled |-> "resolved",
                 result |-> ErrorResult("Cross-origin action requests not allowed", 403)])

\* lines 61-122: callAction from its call to the await of fetch, or to the
\* return of a guard or of the catch block
callActionFrom(c, action, args, nonce, options) ==
    IF ~hasWindow
    THEN BrowserGuardReturn([c EXCEPT !.options = options])
    ELSE IF CrossOrigin(locationOrigin, windowOrigin)
    THEN OriginGuardReturn([c EXCEPT !.options = options])
    ELSE LET armed == [c EXCEPT !.options = options,
                                !.timeout = EffectiveTimeout(options),
                                !.timer = "armed"]
             built == BuildRequest(action, args, nonce)
         IN IF built.threw
            THEN Caught(armed, built.err)
            ELSE [armed EXCEPT !.pc = "fetch", !.action = action, !.args = args,
                               !.nonce = nonce, !.request = built.request,
                               !.fetches = c.fetches + 1]

\* callAction called with a value made for the call
callAction(action, args, nonce, options) ==
    /\ nextCall <= MaxCalls
    /\ calls' = [calls EXCEPT ![nextCall] =
                    callActionFrom(IdleCall, action, args, nonce, options)]
    /\ nextCall' = nextCall + 1
    /\ UNCHANGED <<envVars, callerArgs, cartVars>>

\* callAction called with an object the caller holds, "form" or "map", as
\* that object is now; past the guards the body is built from it
callActionWith(held, action, nonce, options) ==
    /\ nextCall <= MaxCalls
    /\ calls' = [calls EXCEPT ![nextCall] =
                    callActionFrom(IdleCall, action, callerArgs[held], nonce, options)]
    /\ nextCall' = nextCall + 1
    /\ callerArgs' =
          IF ~hasWindow \/ CrossOrigin(locationOrigin, windowOrigin) THEN callerArgs
          ELSE [callerArgs EXCEPT ![held] = ArgsAfter(action, callerArgs[held], nonce)]
    /\ UNCHANGED <<envVars, cartVars>>

\* line 86: the timer fires, controller.abort(); a pending fetch or body read
\* rejects with the AbortError and the catch block runs
MutTimerFiresSharedController(i) ==
    /\ calls[i].timer = "armed"
    /\ calls' = [j \in CallIds |->
                    IF j = i \/ calls[j].pc \in {"fetch", "body"}
                    THEN LET fired == [calls[j] EXCEPT
                                          !.timer = IF j = i THEN "fired" ELSE @,
                                          !.aborted = TRUE]
                         IN IF fired.pc \in {"fetch", "body"}
                            THEN Caught(fired, AbortError)
                            ELSE fired
                    ELSE calls[j]]
    /\ UNCHANGED <<envVars, nextCall, callerArgs, cartVars>>
TimerFires(i) ==
    /\ calls[i].timer = "armed"
    /\ LET fired == [calls[i] EXCEPT !.timer = "fired", !.aborted = TRUE]
       IN calls' = [calls EXCEPT ![i] =
                       IF fired.pc \in {"fetch", "body"}
                       THEN Caught(fired, AbortError)
                       ELSE fired]
    /\ UNCHANGED <<envVars, nextCall, callerArgs, cartVars>>

\* lines 117-135: the fetch promise resolves with the response headers
Responded(c, status, ct) ==
    LET cleared == [c EXCEPT !.timer = ClearTimeout(c.timer), !.resStatus = status]
    IN IF ~ResponseOk(status)
       THEN Caught(cleared,
                   MkStatusError("Error", "HTTP error " \o ToString(status), status))
       ELSE [cleared EXCEPT !.pc = "body",
                            !.reading = IF IsJsonContentType(ct) THEN "json" ELSE "text",
                            !.action = "", !.args = JUndefined,
                            !.nonce = "", !.request = NoRequest]
FetchResolves(i, status, ct) ==
    /\ calls[i].pc = "fetch"
    /\ calls' = [calls EXCEPT ![i] = Responded(calls[i], status, ct)]
    /\ UNCHANGED <<envVars, nextCall, callerArgs, cartVars>>

\* lines 117-122, 138: the fetch promise rejects (network failure)
FetchRejects(i, err) ==
    /\ calls[i].pc = "fetch"
    /\ calls' = [calls EXCEPT ![i] = Caught(calls[i], err)]
    /\ UNCHANGED <<envVars, nextCall, callerArgs, cartVars>>

\* lines 132-137: res.json() or res.text() resolves
BodyResolves(i, data) ==
    /\ calls[i].pc = "body"
    /\ data \in (IF calls[i].reading = "json" THEN JsonBodies ELSE TextBodies)
    /\ calls' = [calls EXCEPT ![i] =
                    Returned(calls[i], [settled |-> "resolved", result |-> OkReturn(data)])]
    /\ UNCHANGED <<envVars, nextCall, callerArgs, cartVars>>

\* lines 132-135, 138: res.json() or res.text() rejects
BodyRejects(i, err) ==
    /\ calls[i].pc = "body"
    /\ err \in BodyFailures(calls[i].reading)
    /\ calls' = [calls EXCEPT ![i] = Caught(calls[i], err)]
    /\ UNCHANGED <<envVars, nextCall, callerArgs, cartVars>>

(***************************************************************************)
(* @ferndev/woo: the stores and the cart facade                            *)
(***************************************************************************)
\* number of cart facade operations called in one behaviour
MaxOps == 2

OpIds == 1..MaxOps

\* x[k] on a value that may not be an object: undefined when the key is missing
Get(x, k) == IF x.t = "object" /\ k \in DOMAIN x.v THEN x.v[k] ELSE JUndefined
\* k in x
In(k, x) == x.t = "object" /\ k \in DOMAIN x.v
\* x === 'text'
IsStr(x, text) == x.t = "string" /\ x.v = text
\* { ...f, ...g }
MutMergeFirstWins(f, g) ==
    [k \in (DOMAIN f) \cup (DOMAIN g) |-> IF k \in DOMAIN f THEN f[k] ELSE g[k]]
Merge(f, g) == [k \in (DOMAIN f) \cup (DOMAIN g) |-> IF k \in DOMAIN g THEN g[k] ELSE f[k]]

\* the initial value of $cart
InitialCart ==
    JObj([items |-> JArr(<< >>), subtotal |-> JStr("0"), total |-> JStr("0"),
          item_count |-> JNum(0), tax_total |-> JStr("0"),
          needs_shipping |-> JBool(FALSE), shipping_total |-> JStr("0")])

\* the initial value of $shopConfig
InitialShopConfig == JObj(EmptyMap)

DEFAULT_CART ==
    JObj([items |-> JArr(<< >>), subtotal |-> JStr("0"), total |-> JStr("0"),
          item_count |-> JNum(0), tax_total |-> JStr("0"),
          needs_shipping |-> JBool(FALSE), shipping_total |-> JStr("0")])

isValidCart(c) ==
    /\ Truthy(c) /\ TypeOf(c) = "object"
    /\ Get(c, "items").t = "array"
    /\ Get(c, "item_count").t = "number"

\* lines 27-58: the cart to commit, or null
getCartFromResult(result) ==
    IF result.status # "ok" THEN JNull
    ELSE LET data == result.data
         IN IF ~Truthy(data) \/ TypeOf(data) # "object" THEN JNull
            ELSE IF In("status", data) /\ IsStr(Get(data, "status"), "error") THEN JNull
            ELSE IF ~In("cart", data) \/ Get(data, "cart").t \in {"null", "undefined"}
            THEN JNull
            ELSE IF ~isValidCart(Get(data, "cart"))
            THEN JObj(Merge(DEFAULT_CART.v, Spread(Get(data, "cart"))))
            ELSE Get(data, "cart")

(***************************************************************************)
(* The state one synchronous run of the facade works on: the stores, the   *)
(* loading counter and the record op of the operation the run belongs to.  *)
(* In op, incs, decs, writes and callsMade count the calls of              *)
(* incrementLoadingState, decrementLoadingState, $cart.set and callAction  *)
(* the operation has made; got is the result its callAction resolved to    *)
(* seq the rank of that response among the responses that have arrived,    *)
(* and by the function that took the response.                             *)
(***************************************************************************)
NoEntry == [name |-> ""]
NoCall == [action |-> ""]
NoError == [isError |-> FALSE]
IdleOp ==
    [pc |-> "idle", entry |-> NoEntry, running |-> "", sent |-> NoCall,
     ret |-> NoResult, err |-> NoError, incs |-> 0, decs |-> 0, writes |-> 0,
     callsMade |-> 0, got |-> NoResult, seq |-> 0, by |-> ""]

\* part_001 lines 67-72
MutIncrementChecksZero(S) ==
    [S EXCEPT !.count = S.count + 1,
              !.loading = IF S.count + 1 = 0 THEN TRUE ELSE S.loading,
              !.op.incs = S.op.incs + 1]
incrementLoadingState(S) ==
    [S EXCEPT !.count = S.count + 1,
              !.loading = IF S.count + 1 = 1 THEN TRUE ELSE S.loading,
              !.op.incs = S.op.incs + 1]

\* part_001 lines 79-85
MutDecrementSetsFalse(S) ==
    [S EXCEPT !.count = IF S.count - 1 <= 0 THEN 0 ELSE S.count - 1,
              !.loading = FALSE, !.op.decs = S.op.decs + 1]
MutDecrementSkipped(S) == S
decrementLoadingState(S) ==
    IF S.count - 1 <= 0
    THEN [S EXCEPT !.count = 0, !.loading = FALSE, !.op.decs = S.op.decs + 1]
    ELSE [S EXCEPT !.count = S.count - 1, !.op.decs = S.op.decs + 1]

\* lines 54 and 64: what the object set into $cart has in common with the
\* cart object of result.data.  The parsed copy shares nothing; the spread
\* over the defaults is a new object holding the same nested objects, so it
\* shares the items array; otherwise the stored object is the cart object
\* of the result itself
SharedBy(result, clone) ==
    IF clone THEN "none"
    ELSE IF isValidCart(Get(result.data, "cart")) THEN "whole"
    ELSE "nested"

\* lines 60-65
MutUpdateCartStoreSetsNull(S, result, clone) ==
    LET c == getCartFromResult(result)
    IN [S EXCEPT !.cart = IF clone THEN Stringify(c) ELSE c,
                 !.op.writes = S.op.writes + 1]
MutUpdateCartStoreAppends(S, result, clone) ==
    LET c == getCartFromResult(result)
        old == Get(S.cart, "items")
        new == Get(c, "items")
    IN IF ~Truthy(c) THEN S
       ELSE [S EXCEPT !.cart = IF old.t = "array" /\ new.t = "array"
                                THEN JObj(WithKey(c.v, "items", JArr(old.v \o new.v)))
                                ELSE c,
                      !.op.writes = S.op.writes + 1]
MutUpdateCartStoreFirstWins(S, result, clone) ==
    LET c == getCartFromResult(result)
    IN IF ~Truthy(c) \/ S.cart # InitialCart THEN S
       ELSE [S EXCEPT !.cart = IF clone THEN Stringify(c) ELSE c,
                      !.op.writes = S.op.writes + 1]
MutUpdateCartStoreNeverClones(S, result, clone) ==
    LET c == getCartFromResult(result)
    IN IF ~Truthy(c) THEN S
       ELSE [S EXCEPT !.cart = c, !.shares = SharedBy(result, FALSE),
                      !.op.writes = S.op.writes + 1]
updateCartStore(S, result, clone) ==
    LET c == getCartFromResult(result)
    IN IF ~Truthy(c) THEN S
       ELSE [S EXCEPT !.cart = IF clone THEN Stringify(c) ELSE c,
                      !.shares = SharedBy(result, clone),
                      !.op.writes = S.op.writes + 1]

\* new Error(`${context}: ${e instanceof Error ? e.message : 'Unknown error'}`)
\* with error.cause = e
WrapError(context, e) ==
    [isError |-> TRUE, name |-> "Error",
     message |-> context \o ": " \o (IF e.isError THEN e.message ELSE "Unknown error"),
     cause |-> e]

\* the promise of the operation rejects with e.  Of a settled operation the
\* record keeps the outcome and the counts; of a rejected one also which
\* function was called
Rejected(S, e) ==
    [S EXCEPT !.op.pc = "rejected", !.op.err = e, !.op.running = "",
              !.op.sent = NoCall, !.op.entry = [name |-> S.op.entry.name]]
\* the promise of the operation resolves with result
Resolved(S, result) ==
    [S EXCEPT !.op.pc = "resolved", !.op.ret = result, !.op.running = "",
              !.op.sent = NoCall, !.op.entry = NoEntry]

\* await callAction(action, args) inside the function `running`
AwaitCallAction(S, running, action, args) ==
    [S EXCEPT !.op.pc = "await", !.op.running = running,
              !.op.sent = [action |-> action, args |-> args],
              !.op.callsMade = S.op.callsMade + 1]

\* the values callAction resolves to for the facade, which calls it with plain
\* arguments, no nonce and no options
CartItemOf(key, productId, quantity) ==
    JObj([key |-> JStr(key), product_id |-> JNum(productId), quantity |-> JNum(quantity)])
ServerCart(items, count, total) ==
    JObj([items |-> JArr(items), subtotal |-> JStr(total), total |-> JStr(total),
          item_count |-> JNum(count), tax_total |-> JStr("0"),
          needs_shipping |-> JBool(TRUE), shipping_total |-> JStr("0")])
CartA == ServerCart(<<CartItemOf("k1", 123, 1)>>, 1, "10")
CartB == ServerCart(<<CartItemOf("k1", 123, 2)>>, 2, "20")
ShopConfigA ==
    JObj([price_decimals |-> JNum(2), decimal_separator |-> JStr("."),
          thousand_separator |-> JStr(","), currency_symbol |-> JStr("$"),
          currency_position |-> JStr("left")])
\* what the server answers with
CartResponses ==
    { JObj([cart |-> CartA]),
      JObj([cart |-> CartB, config |-> ShopConfigA]),
      JObj([status |-> JStr("error"), message |-> JStr("Out of stock"),
            cart |-> CartB, config |-> ShopConfigA]),
      JObj([config |-> ShopConfigA]),
      JObj([cart |-> JNull, config |-> ShopConfigA]),
      JObj([cart |-> JObj([item_count |-> JNum(3)])]),
      JObj([cart |-> JObj([items |-> JNull, item_count |-> JStr("2")])]),
      JStr("<html>") }

TransportResults ==
    IF ~hasWindow THEN { BrowserGuardReturn(IdleCall).result }
    ELSE IF CrossOrigin(locationOrigin, windowOrigin)
    THEN { OriginGuardReturn(IdleCall).result }
    ELSE { OkReturn(d) : d \in CartResponses }
         \cup { CatchOutcome(e, DefaultTimeout).result :
                  e \in { AbortError, MkStatusError("Error", "HTTP error 503", 503) } }

Keys == {"k1", "k2"}
Quantities == {-1, 0, 2}
ItemQuantities == { JUndefined, JNum(-1), JNum(0), JNum(3) }
VariationChanges ==
    { [variationId |-> JUndefined, variation |-> JUndefined],
      [variationId |-> JNum(456), variation |-> JObj([size |-> JStr("m")])] }
ProductIds == {123}
BatchItems == { << >>, << [productId |-> JNum(123)] >> }
Coupons == {"SAVE20"}

\* lines 79-82
initializeCartCall(S) ==
    AwaitCallAction(incrementLoadingState(S), "initializeCart", "getInitialState",
                    JObj(EmptyMap))

\* lines 138-153
addToCartCall(S, productId) ==
    AwaitCallAction(incrementLoadingState(S), "addToCart", "addToCart",
                    JObj([product_id |-> JNum(productId), quantity |-> JNum(1),
                          variation_id |-> JUndefined, variation |-> JObj(EmptyMap),
                          cart_item_key |-> JUndefined]))

\* lines 199-211
MutBatchAddToCartCallPerItem(S, items) ==
    [AwaitCallAction(incrementLoadingState(S), "batchAddToCart", "batchAddToCart",
                     JObj([items |-> JArr(<< >>)]))
        EXCEPT !.op.callsMade = S.op.callsMade + Len(items)]
batchAddToCartCall(S, items) ==
    LET formattedItems ==
            [n \in DOMAIN items |->
                JObj([product_id |-> items[n].productId,
                      quantity |-> IF "quantity" \in DOMAIN items[n]
                                   THEN items[n].quantity ELSE JNum(1),
                      variation_id |-> JUndefined,
                      variation |-> JObj(EmptyMap)])]
    IN AwaitCallAction(incrementLoadingState(S), "batchAddToCart", "batchAddToCart",
                       JObj([items |-> JArr(formattedItems)]))

\* lines 299-304
removeFromCartCall(S, cartItemKey) ==
    AwaitCallAction(incrementLoadingState(S), "removeFromCart", "removeFromCart",
                    JObj([cart_item_key |-> JStr(cartItemKey)]))

\* lines 328-344
MutUpdateQuantityZeroUpdates(S, cartItemKey, quantity) ==
    IF quantity < 0
    THEN Rejected(S, MkError("Error", "Invalid quantity: " \o ToString(quantity)
                     \o ". Quantity must be positive. Use removeFromCart() to remove items."))
    ELSE AwaitCallAction(incrementLoadingState(S), "updateQuantity",
                         "updateCartItemQuantity",
                         JObj([cart_item_key |-> JStr(cartItemKey),
                               quantity |-> JNum(quantity)]))
MutUpdateQuantityLateGuard(S, cartItemKey, quantity) ==
    IF quantity = 0
    THEN removeFromCartCall(S, cartItemKey)
    ELSE IF quantity < 0
    THEN decrementLoadingState(Rejected(incrementLoadingState(S),
             MkError("Error", "Invalid quantity: " \o ToString(quantity)
                     \o ". Quantity must be positive. Use removeFromCart() to remove items.")))
    ELSE AwaitCallAction(incrementLoadingState(S), "updateQuantity",
                         "updateCartItemQuantity",
                         JObj([cart_item_key |-> JStr(cartItemKey),
                               quantity |-> JNum(quantity)]))
MutUpdateQuantitySkipsIncrement(S, cartItemKey, quantity) ==
    IF quantity < 0
    THEN Rejected(S, MkError("Error", "Invalid quantity: " \o ToString(quantity)
                     \o ". Quantity must be positive. Use removeFromCart() to remove items."))
    ELSE IF quantity = 0
    THEN removeFromCartCall(S, cartItemKey)
    ELSE AwaitCallAction(S, "updateQuantity", "updateCartItemQuantity",
                         JObj([cart_item_key |-> JStr(cartItemKey),
                               quantity |-> JNum(quantity)]))
updateQuantityCall(S, cartItemKey, quantity) ==
    IF quantity < 0
    THEN Rejected(S, MkError("Error", "Invalid quantity: " \o ToString(quantity)
                     \o ". Quantity must be positive. Use removeFromCart() to remove items."))
    ELSE IF quantity = 0
    THEN removeFromCartCall(S, cartItemKey)
    ELSE AwaitCallAction(incrementLoadingState(S), "updateQuantity",
                         "updateCartItemQuantity",
                         JObj([cart_item_key |-> JStr(cartItemKey),
                               quantity |-> JNum(quantity)]))

\* lines 251-287, to the await of callAction or to the return
updateCartItemCall(S, cartItemKey, quantity, variationId, variation) ==
    LET S1 == incrementLoadingState(S)
        context == "Failed to update cart item " \o cartItemKey
        items == Get(S1.cart, "items")
        found == IF items.t = "array"
                 THEN { n \in DOMAIN items.v : IsStr(Get(items.v[n], "key"), cartItemKey) }
                 ELSE {}
    IN IF Truthy(quantity) /\ ~Truthy(variationId) /\ ~Truthy(variation)
       THEN \* return updateQuantity(...): not awaited, the finally block runs now
            decrementLoadingState(updateQuantityCall(S1, cartItemKey, quantity.v))
       ELSE IF items.t # "array"
       THEN decrementLoadingState(Rejected(S1,
                WrapError(context,
                    MkError("TypeError",
                            IF items.t \in {"null", "undefined"}
                            THEN "Cannot read properties of " \o items.t \o " (reading 'find')"
                            ELSE "items.find is not a function"))))
       ELSE IF found = {}
       THEN decrementLoadingState(Rejected(S1,
                WrapError(context, MkError("Error", "Cart item not found"))))
       ELSE LET currentItem == items.v[CHOOSE n \in found : \A m \in found : n <= m]
            IN AwaitCallAction(S1, "updateCartItem", "updateCartItem",
                   JObj([cart_item_key |-> JStr(cartItemKey),
                         product_id |-> Get(currentItem, "product_id"),
                         quantity |-> IF quantity.t \in {"null", "undefined"}
                                      THEN Get(currentItem, "quantity") ELSE quantity,
                         variation_id |-> variationId,
                         variation |-> variation]))

\* lines 366-369, 390-393
simpleCall(S, name, action) ==
    AwaitCallAction(incrementLoadingState(S), name, action, JObj(EmptyMap))

\* lines 415-420, 442-447
couponCall(S, name, couponCode) ==
    AwaitCallAction(incrementLoadingState(S), name, name, JObj([coupon |-> JStr(couponCode)]))

\* lines 83-96: initializeCart after its await
MutInitializeCartWritesEach(S, result) ==
    LET data == IF result.status = "ok" THEN result.data ELSE JUndefined
        S1 == IF Truthy(Get(data, "cart"))
              THEN [S EXCEPT !.cart = Get(data, "cart"), !.op.writes = S.op.writes + 1]
              ELSE S
        S2 == IF Truthy(Get(data, "config"))
              THEN [S1 EXCEPT !.config = Get(data, "config")]
              ELSE S1
    IN decrementLoadingState(Resolved(S2, result))
initializeCartResume(S, result) ==
    LET data == IF result.status = "ok" THEN result.data ELSE JUndefined
        S1 == IF result.status = "ok" /\ Truthy(Get(data, "cart"))
                 /\ Truthy(Get(data, "config"))
              THEN [S EXCEPT !.cart = Get(data, "cart"), !.config = Get(data, "config"),
                             !.shares = "whole", !.op.writes = S.op.writes + 1]
              ELSE S
    IN decrementLoadingState(Resolved(S1, result))

\* the other operations after their await: updateCartStore, return result,
\* and the finally block
MutCartOperationResumeSetsConfig(S, result) ==
    LET data == IF result.status = "ok" THEN result.data ELSE JUndefined
        S1 == updateCartStore(S, result, S.op.running \in {"addToCart", "batchAddToCart"})
    IN decrementLoadingState(
           Resolved(IF Truthy(Get(data, "config"))
                    THEN [S1 EXCEPT !.config = Get(data, "config")] ELSE S1,
                    result))
cartOperationResume(S, result) ==
    decrementLoadingState(
        Resolved(updateCartStore(S, result, S.op.running \in {"addToCart", "batchAddToCart"}),
                 result))

\* the state a run of operation `entry` starts from
Begin(entry) ==
    [count |-> loadingOperationsCount, loading |-> cartIsLoading, cart |-> cart,
     config |-> shopConfig, shares |-> "none", op |-> [IdleOp EXCEPT !.entry = entry]]

\* the state a run of operation o resumes from
Continue(o) ==
    [count |-> loadingOperationsCount, loading |-> cartIsLoading, cart |-> cart,
     config |-> shopConfig, shares |-> "none", op |-> ops[o]]

\* the run ends: its state becomes the state of the program
Commit(o, S) ==
    /\ loadingOperationsCount' = S.count
    /\ cartIsLoading' = S.loading
    /\ cart' = S.cart
    /\ shopConfig' = S.config
    /\ ops' = [ops EXCEPT ![o] = S.op]

Called(S) ==
    /\ nextOp <= MaxOps
    /\ Commit(nextOp, S)
    /\ nextOp' = nextOp + 1
    /\ UNCHANGED <<envVars, callVars>>

initializeCart == Called(initializeCartCall(Begin([name |-> "initializeCart"])))

addToCart(productId) ==
    Called(addToCartCall(Begin([name |-> "addToCart", productId |-> productId]), productId))

batchAddToCart(items) ==
    Called(batchAddToCartCall(Begin([name |-> "batchAddToCart", items |-> items]), items))

updateCartItem(cartItemKey, quantity, change) ==
    Called(updateCartItemCall(
               Begin([name |-> "updateCartItem", cartItemKey |-> cartItemKey,
                      quantity |-> quantity, variationId |-> change.variationId,
                      variation |-> change.variation]),
               cartItemKey, quantity, change.variationId, change.variation))

removeFromCart(cartItemKey) ==
    Called(removeFromCartCall(
               Begin([name |-> "removeFromCart", cartItemKey |-> cartItemKey]),
               cartItemKey))

updateQuantity(cartItemKey, quantity) ==
    Called(updateQuantityCall(
               Begin([name |-> "updateQuantity", cartItemKey |-> cartItemKey,
                      quantity |-> quantity]),
               cartItemKey, quantity))

getCart == Called(simpleCall(Begin([name |-> "getCart"]), "getCart", "getCartContents"))

clearCart == Called(simpleCall(Begin([name |-> "clearCart"]), "clearCart", "clearCart"))

applyCoupon(couponCode) ==
    Called(couponCall(Begin([name |-> "applyCoupon", couponCode |-> couponCode]),
                      "applyCoupon", couponCode))

removeCoupon(couponCode) ==
    Called(couponCall(Begin([name |-> "removeCoupon", couponCode |-> couponCode]),
                      "removeCoupon", couponCode))

\* the number of responses that have arrived
Arrived == Cardinality({ p \in OpIds : ops[p].seq > 0 })

\* the state operation o resumes from when its callAction resolves with result
Receive(o, result) ==
    [Continue(o) EXCEPT !.op.got = result, !.op.seq = Arrived + 1,
                        !.op.by = IF ops[o].running = "initializeCart"
                                  THEN "initializeCart" ELSE "updateCartStore"]

\* the run of operation o from its await to its end
Resume(o, result) ==
    IF ops[o].running = "initializeCart"
    THEN initializeCartResume(Receive(o, result), result)
    ELSE cartOperationResume(Receive(o, result), result)

\* the callAction awaited by operation o resolves with result and the
\* operation runs to its end
callActionResolves(o, result) ==
    /\ ops[o].pc = "await"
    /\ Commit(o, Resume(o, result))
    /\ UNCHANGED <<envVars, callVars, nextOp>>

(***************************************************************************)
(* The caller keeps the result an operation returns, an object whose       *)
(* data.cart the store may hold too, and changes it later.  In kept,       *)
(* original is the result as it was returned, result the object as it is   *)
(* now, shares what the object in $cart has in common with it and          *)
(* committed the value of $cart at the end of the operation.               *)
(***************************************************************************)
NothingKept == [op |-> 0]
KeptChanges == {"item_count", "items"}

callActionResolvesKept(o, result) ==
    /\ ops[o].pc = "await"
    /\ LET S == Resume(o, result)
       IN /\ Commit(o, S)
          /\ kept' = [op |-> o, name |-> ops[o].running, original |-> result,
                      result |-> result, shares |-> S.shares,
                      wrote |-> S.op.writes > ops[o].writes, committed |-> S.cart]
    /\ UNCHANGED <<hasWindow, locationOrigin, windowOrigin, received, fern, serverVars, formatted,
                   callVars, nextOp>>

\* result.data.cart.item_count = 99, or result.data.cart.items.length = 0
ChangedCart(c, change) ==
    IF change = "item_count" THEN JObj(WithKey(c.v, "item_count", JNum(99)))
    ELSE JObj(WithKey(c.v, "items", JArr(<< >>)))

\* the caller changes the cart of the result it kept: the object in $cart
\* changes with it where the two are one object
CallerMutates(change) ==
    /\ kept.op # 0 /\ kept.result.status = "ok"
    /\ Get(kept.result.data, "cart").t = "object"
    /\ change = "items" => Get(Get(kept.result.data, "cart"), "items").t = "array"
    /\ kept' = [kept EXCEPT !.result =
                   OkResult(JObj(WithKey(kept.result.data.v, "cart",
                                         ChangedCart(Get(kept.result.data, "cart"), change))))]
    /\ cart' = IF kept.shares = "whole" \/ (kept.shares = "nested" /\ change = "items")
               THEN ChangedCart(cart, change) ELSE cart
    /\ UNCHANGED <<hasWindow, locationOrigin, windowOrigin, received, fern, serverVars, formatted, callVars,
                   shopConfig, cartIsLoading, loadingOperationsCount, ops, nextOp>>

KeptResponses ==
    { JObj([cart |-> CartA]),
      JObj([cart |-> CartB, config |-> ShopConfigA]),
      JObj([cart |-> JObj([items |-> JArr(<<CartItemOf("k1", 123, 2)>>),
                           item_count |-> JStr("2")])]) }
KeptResults ==
    IF ~hasWindow THEN { BrowserGuardReturn(IdleCall).result }
    ELSE IF CrossOrigin(locationOrigin, windowOrigin)
    THEN { OriginGuardReturn(IdleCall).result }
    ELSE { OkReturn(d) : d \in KeptResponses }
         \cup { CatchOutcome(MkStatusError("Error", "HTTP error 503", 503),
                             DefaultTimeout).result }

(***************************************************************************)
(* formatPrice, cart.ts lines 474-505.  A string under construction is a   *)
(* sequence of characters; a price is the decimal fraction num / 10^scale. *)
(***************************************************************************)
Price(num, scale) == [num |-> num, scale |-> scale]
Prices == { Price(123456, 2), Price(-10, 0), Price(1234567, 0) }

DigitChars == {"0", "1", "2", "3", "4", "5", "6", "7", "8", "9"}
\* the characters \w of a regular expression matches
WordChars ==
    DigitChars \cup {"_"}
    \cup {"a", "b", "c", "d", "e", "f", "g", "h", "i", "j", "k", "l", "m",
          "n", "o", "p", "q", "r", "s", "t", "u", "v", "w", "x", "y", "z"}
    \cup {"A", "B", "C", "D", "E", "F", "G", "H", "I", "J", "K", "L", "M",
          "N", "O", "P", "Q", "R", "S", "T", "U", "V", "W", "X", "Y", "Z"}

RECURSIVE Pow10(_)
Pow10(n) == IF n = 0 THEN 1 ELSE 10 * Pow10(n - 1)

\* the decimal digits of a natural number
RECURSIVE DigitsOf(_)
DigitsOf(n) ==
    IF n < 10 THEN <<ToString(n)>> ELSE DigitsOf(n \div 10) \o <<ToString(n % 10)>>

Zeros(n) == [i \in 1..n |-> "0"]
PadLeft(ds, n) == IF Len(ds) >= n THEN ds ELSE Zeros(n - Len(ds)) \o ds

\* the characters of a string of at most one character
Chars(str) == IF str = "" THEN << >> ELSE <<str>>

RECURSIVE Join(_)
Join(cs) == IF cs = << >> THEN "" ELSE Head(cs) \o Join(Tail(cs))

\* Math.abs(price)
Abs(x) == IF x.num < 0 THEN Price(-x.num, x.scale) ELSE x

\* Number.prototype.toFixed of a non-negative x: d fraction digits, the
\* nearest value and of two equally near ones the larger
toFixed(x, d) ==
    LET ds == IF d >= x.scale
              THEN PadLeft(DigitsOf(x.num), x.scale + 1) \o Zeros(d - x.scale)
              ELSE PadLeft(DigitsOf((2 * x.num + Pow10(x.scale - d))
                                    \div (2 * Pow10(x.scale - d))), d + 1)
        k == Len(ds) - d
    IN IF d = 0 THEN ds ELSE SubSeq(ds, 1, k) \o <<".">> \o SubSeq(ds, k + 1, Len(ds))

\* String.prototype.replace(pattern, by) with a one-character string
\* pattern: the first occurrence only
RECURSIVE ReplaceFirst(_, _, _)
ReplaceFirst(cs, pattern, by) ==
    IF cs = << >> THEN << >>
    ELSE IF Head(cs) = pattern THEN by \o Tail(cs)
    ELSE <<Head(cs)>> \o ReplaceFirst(Tail(cs), pattern, by)

\* the number of digits cs has from position p + 1 on, up to the first
\* character that is no digit
RECURSIVE DigitRun(_, _)
DigitRun(cs, p) ==
    IF p >= Len(cs) \/ cs[p + 1] \notin DigitChars THEN 0 ELSE 1 + DigitRun(cs, p + 1)

\* /\B(?=(\d{3})+(?!\d))/ matches the empty string at position p, between
\* the characters p and p + 1
MutGroupMatchesIntegerPart(cs, p) ==
    /\ p >= 1 /\ p < Len(cs)
    /\ \A q \in 1..p : cs[q] \in DigitChars
    /\ DigitRun(cs, p) >= 3 /\ DigitRun(cs, p) % 3 = 0
GroupMatches(cs, p) ==
    /\ (p >= 1 /\ cs[p] \in WordChars) <=> (p < Len(cs) /\ cs[p + 1] \in WordChars)
    /\ DigitRun(cs, p) >= 3 /\ DigitRun(cs, p) % 3 = 0

\* replace(/\B(?=(\d{3})+(?!\d))/g, by), from position p on
RECURSIVE ReplaceGroups(_, _, _)
ReplaceGroups(cs, by, p) ==
    IF p > Len(cs) THEN << >>
    ELSE (IF GroupMatches(cs, p) THEN by ELSE << >>)
         \o (IF p < Len(cs) THEN <<cs[p + 1]>> ELSE << >>)
         \o ReplaceGroups(cs, by, p + 1)

NotInitialized ==
    MkError("Error", "[Fern Woo] Shop config not initialized. "
                     \o "Call initializeCart() before using formatPrice()")
Threw(e) == [threw |-> TRUE, err |-> e]
ReturnedString(str) == [threw |-> FALSE, value |-> str]
NotFormatted == [called |-> FALSE]

ConfigFields ==
    {"price_decimals", "decimal_separator", "thousand_separator",
     "currency_symbol", "currency_position"}

\* lines 487-490
FormattedNumber(config, price) ==
    Join(ReplaceGroups(
             ReplaceFirst(toFixed(Abs(price), Get(config, "price_decimals").v),
                          ".", Chars(Get(config, "decimal_separator").v)),
             Chars(Get(config, "thousand_separator").v), 0))

\* lines 492-504
MutPositionedRightFallback(config, price, formattedNumber) ==
    LET sign == IF price.num < 0 THEN "-" ELSE ""
        symbol == Get(config, "currency_symbol").v
        position == Get(config, "currency_position").v
    IN CASE position = "left" -> sign \o symbol \o formattedNumber
         [] position = "right" -> sign \o formattedNumber \o symbol
         [] position = "left_space" -> sign \o symbol \o " " \o formattedNumber
         [] position = "right_space" -> sign \o formattedNumber \o " " \o symbol
         [] OTHER -> sign \o formattedNumber \o symbol
Positioned(config, price, formattedNumber) ==
    LET sign == IF price.num < 0 THEN "-" ELSE ""
        symbol == Get(config, "currency_symbol").v
        position == Get(config, "currency_position").v
    IN CASE position = "left" -> sign \o symbol \o formattedNumber
         [] position = "right" -> sign \o formattedNumber \o symbol
         [] position = "left_space" -> sign \o symbol \o " " \o formattedNumber
         [] position = "right_space" -> sign \o formattedNumber \o " " \o symbol
         [] OTHER -> sign \o symbol \o formattedNumber

\* lines 475-504
MutFormatPriceChecksDecimalsOnly(config, price) ==
    IF ~Truthy(config) \/ Get(config, "price_decimals").t = "undefined"
    THEN Threw(NotInitialized)
    ELSE ReturnedString("$0.00")
formatPriceOf(config, price) ==
    IF ~Truthy(config) \/ \E f \in ConfigFields : Get(config, f).t = "undefined"
    THEN Threw(NotInitialized)
    ELSE ReturnedString(Positioned(config, price, FormattedNumber(config, price)))

\* formatPrice(price) is called: it reads $shopConfig and returns or throws
formatPrice(price) ==
    /\ formatted' = [called |-> TRUE, price |-> price, config |-> shopConfig,
                     outcome |-> formatPriceOf(shopConfig, price)]
    /\ UNCHANGED <<hasWindow, locationOrigin, windowOrigin, received, fern, serverVars, kept, callVars, cartVars>>

\* the shop configurations a server answers with, the last ones lacking a field
ShopConfigB ==
    JObj([price_decimals |-> JNum(4), decimal_separator |-> JStr(","),
          thousand_separator |-> JStr("."), currency_symbol |-> JStr("EUR"),
          currency_position |-> JStr("right_space")])
ShopConfigLacking(f) == JObj([k \in ConfigFields \ {f} |-> ShopConfigA.v[k]])
ShopBatchItems ==
    { << [productId |-> JNum(123)] >>,
      << [productId |-> JNum(123)], [productId |-> JNum(456)] >> }
ShopResponses ==
    { JObj([cart |-> CartB, config |-> ShopConfigA]),
      JObj([cart |-> CartB, config |-> ShopConfigB]),
      JObj([cart |-> CartA]) }
PriceResponses ==
    ShopResponses
    \cup { JObj([cart |-> CartB, config |-> ShopConfigLacking(f)]) : f \in ConfigFields }
\* the results of callAction for the given responses of the server
ResultsFor(responses) ==
    IF ~hasWindow THEN { BrowserGuardReturn(IdleCall).result }
    ELSE IF CrossOrigin(locationOrigin, windowOrigin)
    THEN { OriginGuardReturn(IdleCall).result }
    ELSE { OkReturn(d) : d \in responses }
         \cup { CatchOutcome(MkStatusError("Error", "HTTP error 503", 503),
                             DefaultTimeout).result }
ShopPrices == { Price(123456, 2) }
\* the values of currency_position the switch names, and one it does not
CurrencyPositions == {"left", "right", "left_space", "right_space", "top"}
ShopConfigAt(position) ==
    JObj([ShopConfigA.v EXCEPT !.currency_position = JStr(position)])
PositionResponses ==
    { JObj([cart |-> CartB, config |-> ShopConfigAt(position)]) :
        position \in CurrencyPositions }

(***************************************************************************)
(* A deterministic server, for the claims that assume one: it keeps a cart *)
(* as quantities by item key, applies the action of a request to it and    *)
(* answers 200 with the cart it then holds.                                *)
(***************************************************************************)
InitialServerCart == [k \in {"k1", "k2"} |-> IF k = "k1" THEN 1 ELSE 3]

\* the sum of the quantities of the items with the given keys
RECURSIVE ServerItemCount(_, _)
ServerItemCount(sc, keys) ==
    IF keys = {} THEN 0
    ELSE LET k == CHOOSE j \in keys : TRUE
         IN sc[k] + ServerItemCount(sc, keys \ {k})

\* the keys of a server cart, in the order the server lists the items
RECURSIVE ServerKeyOrder(_)
ServerKeyOrder(keys) ==
    IF keys = {} THEN << >>
    ELSE LET k == CHOOSE j \in keys : \A i \in keys : (j = "k1") \/ (i # "k1")
         IN <<k>> \o ServerKeyOrder(keys \ {k})

\* the cart of the response: the items, their count and the total at 10 each
ServerRender(sc) ==
    LET order == ServerKeyOrder(DOMAIN sc)
        count == ServerItemCount(sc, DOMAIN sc)
    IN ServerCart([n \in DOMAIN order |-> CartItemOf(order[n], 123, sc[order[n]])],
                  count, ToString(10 * count))

\* the server cart after the action of a request: the quantity update sets
\* the quantity of the item with the key, the removal takes the item out,
\* any other action leaves the cart as it is
ServerHandle(sc, sent) ==
    LET key == Get(sent.args, "cart_item_key")
    IN IF key.t # "string" \/ key.v \notin DOMAIN sc THEN sc
       ELSE IF sent.action = "updateCartItemQuantity"
       THEN [sc EXCEPT ![key.v] = Get(sent.args, "quantity").v]
       ELSE IF sent.action = "removeFromCart"
       THEN [k \in DOMAIN sc \ {key.v} |-> sc[k]]
       ELSE sc

\* the server answers the request of operation o, and the operation runs to
\* its end with the response
ServerAnswers(o) ==
    /\ ops[o].pc = "await"
    /\ hasWindow /\ ~CrossOrigin(locationOrigin, windowOrigin)
    /\ LET after == ServerHandle(serverCart, ops[o].sent)
           result == OkReturn(JObj([cart |-> ServerRender(after)]))
           S == cartOperationResume(Receive(o, result), result)
       IN /\ Commit(o, S)
          /\ serverCart' = after
          /\ served' = Append(served, [entry |-> ops[o].entry, cart |-> S.cart])
    /\ UNCHANGED <<hasWindow, locationOrigin, windowOrigin, received, fern, formatted, kept, callVars, nextOp>>

\* operations called one after the other: none is called while another waits
InSequence(call) ==
    /\ \A o \in OpIds : ops[o].pc # "await"
    /\ call

(***************************************************************************)
(* The fern-woo variant of the cart facade.  Its operations set            *)
(* $cartIsLoading themselves, true before the await and false after it,    *)
(* and write result.data.cart to $cart whenever the result is ok and data  *)
(* is truthy.  fern holds the three stores and the operations called.      *)
(***************************************************************************)
FernIdleOp == [pc |-> "idle", running |-> "", ret |-> NoResult, err |-> NoError]
FernInitial ==
    [cart |-> InitialCart, shopConfig |-> InitialShopConfig, cartIsLoading |-> FALSE,
     ops |-> [o \in OpIds |-> FernIdleOp], nextOp |-> 1]
FernOperations == {"initializeCart", "addToCart", "removeFromCart"}
FernResponses ==
    { JObj([cart |-> CartA]), JObj([cart |-> CartB, config |-> ShopConfigA]),
      JStr("<html>") }
FernResults ==
    { OkReturn(d) : d \in FernResponses }
    \cup { CatchOutcome(AbortError, DefaultTimeout).result }

\* an operation runs up to its await: $cartIsLoading.set(true), callAction(...)
FernCalls(name) ==
    /\ fern.nextOp <= MaxOps
    /\ fern' = [fern EXCEPT !.cartIsLoading = TRUE,
                            !.ops[fern.nextOp] = [FernIdleOp EXCEPT !.pc = "await",
                                                                    !.running = name],
                            !.nextOp = fern.nextOp + 1]
    /\ UNCHANGED <<hasWindow, locationOrigin, windowOrigin, serverVars, formatted, kept,
                   received, callVars, cartVars>>

\* the run of an operation from its await to its end
FernResume(F, o, result) ==
    LET data == IF result.status = "ok" THEN result.data ELSE JUndefined
        writes == result.status = "ok" /\ Truthy(data)
        c == Get(data, "cart")
        settled == [F EXCEPT !.cartIsLoading = FALSE, !.ops[o].pc = "resolved",
                             !.ops[o].ret = result]
    IN CASE F.ops[o].running = "initializeCart" ->
                IF writes
                THEN [settled EXCEPT !.cart = c, !.shopConfig = Get(data, "config")]
                ELSE settled
         [] F.ops[o].running = "addToCart" ->
                IF writes /\ c.t = "undefined"
                THEN \* JSON.parse(JSON.stringify(undefined)) throws; catch, rethrow
                     [F EXCEPT !.cartIsLoading = FALSE, !.ops[o].pc = "rejected",
                               !.ops[o].err = MkError("SyntaxError",
                                                      "\"undefined\" is not valid JSON")]
                ELSE IF writes THEN [settled EXCEPT !.cart = Stringify(c)]
                ELSE settled
         [] OTHER -> IF writes THEN [settled EXCEPT !.cart = c] ELSE settled

\* the callAction awaited by operation o resolves with result
FernCallActionResolves(o, result) ==
    /\ fern.ops[o].pc = "await"
    /\ fern' = FernResume(fern, o, result)
    /\ UNCHANGED <<hasWindow, locationOrigin, windowOrigin, serverVars, formatted, kept,
                   received, callVars, cartVars>>

NextFern ==
    \/ \E name \in FernOperations : FernCalls(name)
    \/ \E o \in OpIds, result \in FernResults : FernCallActionResolves(o, result)

(***************************************************************************)
(* Specifications                                                          *)
(***************************************************************************)
Init ==
    /\ hasWindow \in BOOLEAN
    /\ locationOrigin \in Origins
    /\ windowOrigin \in Origins
    /\ (~hasWindow => locationOrigin = "null" /\ windowOrigin = "null")
    /\ calls = [i \in CallIds |-> IdleCall]
    /\ nextCall = 1
    /\ callerArgs = [form |-> CallerForm, map |-> CallerMap]
    /\ cart = InitialCart
    /\ shopConfig = InitialShopConfig
    /\ cartIsLoading = FALSE
    /\ loadingOperationsCount = 0
    /\ ops = [o \in OpIds |-> IdleOp]
    /\ nextOp = 1
    /\ serverCart = InitialServerCart
    /\ served = << >>
    /\ formatted = NotFormatted
    /\ kept = NothingKept
    /\ received = [i \in CallIds |-> NoResponse]
    /\ fern = FernInitial

NextTransport ==
    \/ \E action \in ActionNames, args \in ArgsValues, nonce \in NonceValues,
          options \in OptionsValues : callAction(action, args, nonce, options)
    \/ \E i \in CallIds : TimerFires(i)
    \/ \E i \in CallIds, status \in HttpStatuses, ct \in ContentTypes :
          FetchResolves(i, status, ct)
    \/ \E i \in CallIds, err \in FetchFailures : FetchRejects(i, err)
    \/ \E i \in CallIds, data \in JsonBodies \cup TextBodies : BodyResolves(i, data)
    \/ \E i \in CallIds, err \in {JsonSyntaxError, NetworkError} : BodyRejects(i, err)

NextCart ==
    \/ initializeCart
    \/ \E productId \in ProductIds : addToCart(productId)
    \/ \E items \in BatchItems : batchAddToCart(items)
    \/ \E k \in Keys, q \in ItemQuantities, change \in VariationChanges :
          updateCartItem(k, q, change)
    \/ \E k \in Keys : removeFromCart(k)
    \/ \E k \in Keys, q \in Quantities : updateQuantity(k, q)
    \/ getCart
    \/ clearCart
    \/ \E code \in Coupons : applyCoupon(code)
    \/ \E code \in Coupons : removeCoupon(code)
    \/ \E o \in OpIds, result \in TransportResults : callActionResolves(o, result)

\* a page that may call the server
InitServer == Init /\ hasWindow /\ locationOrigin = windowOrigin

NextServer ==
    \/ \E k \in Keys, q \in Quantities : InSequence(updateQuantity(k, q))
    \/ \E k \in Keys : InSequence(removeFromCart(k))
    \/ InSequence(getCart)
    \/ \E o \in OpIds : ServerAnswers(o)

\* the cart facade and the price formatter of a shop page
NextShop ==
    \/ initializeCart
    \/ addToCart(123)
    \/ \E items \in ShopBatchItems : batchAddToCart(items)
    \/ updateCartItem("k1", JNum(3), [variationId |-> JNum(456),
                                      variation |-> JObj([size |-> JStr("m")])])
    \/ removeFromCart("k1")
    \/ updateQuantity("k1", 2)
    \/ getCart
    \/ clearCart
    \/ applyCoupon("SAVE20")
    \/ removeCoupon("SAVE20")
    \/ \E o \in OpIds, result \in ResultsFor(ShopResponses) : callActionResolves(o, result)
    \/ \E price \in ShopPrices : formatPrice(price)

\* formatPrice on a page that initializes the cart
NextPrice ==
    \/ initializeCart
    \/ \E o \in OpIds, result \in ResultsFor(PriceResponses) : callActionResolves(o, result)
    \/ \E price \in Prices : formatPrice(price)

\* operations whose results the caller keeps and changes
NextKept ==
    \/ initializeCart
    \/ addToCart(123)
    \/ \E items \in ShopBatchItems : batchAddToCart(items)
    \/ getCart
    \/ \E o \in OpIds, result \in KeptResults : callActionResolvesKept(o, result)
    \/ \E change \in KeptChanges : CallerMutates(change)

\* formatPrice under each currency position
NextPosition ==
    \/ initializeCart
    \/ \E o \in OpIds, result \in ResultsFor(PositionResponses) :
          callActionResolves(o, result)
    \/ \E price \in Prices : formatPrice(price)

\* callAction called with the objects the caller keeps
NextCaller ==
    \/ \E held \in {"form", "map"}, action \in ActionNames, nonce \in NonceValues,
          options \in OptionsValues : callActionWith(held, action, nonce, options)
    \/ \E i \in CallIds : TimerFires(i)
    \/ \E i \in CallIds, status \in HttpStatuses, ct \in ContentTypes :
          FetchResolves(i, status, ct)
    \/ \E i \in CallIds, err \in FetchFailures : FetchRejects(i, err)
    \/ \E i \in CallIds, data \in JsonBodies \cup TextBodies : BodyResolves(i, data)
    \/ \E i \in CallIds, err \in {JsonSyntaxError, NetworkError} : BodyRejects(i, err)

(***************************************************************************)
(* The cart facade over the transport.  The callAction an operation awaits *)
(* is the invocation of the same number; received keeps, per invocation,   *)
(* the status and the content-type header of the response and the body the *)
(* server sent.  A body is its text on the wire and, where the text is     *)
(* JSON, the value it parses to.                                           *)
(***************************************************************************)
JsonText(text, value) == [sent |-> TRUE, text |-> text, parses |-> TRUE, value |-> value]
PlainText(text) == [sent |-> TRUE, text |-> text, parses |-> FALSE]
EmptyCart == JObj([items |-> JArr(<< >>), item_count |-> JNum(0)])
PageBodies ==
    { JsonText("{\"cart\":{\"items\":[],\"item_count\":0},\"config\":{\"price_decimals\":2}}",
               JObj([cart |-> EmptyCart, config |-> JObj([price_decimals |-> JNum(2)])])),
      PlainText("<html>") }
PageStatuses == {200, 503}
PageContentTypes == { <<"application/json", "charset=utf-8">>, <<"text/html">>, << >> }
PageOperations == {"initializeCart", "getCart"}

\* the synchronous start of a cart operation, callAction(action, args) included
PageCalls(name) ==
    LET S == CASE name = "initializeCart" ->
                      initializeCartCall(Begin([name |-> "initializeCart"]))
               [] OTHER -> simpleCall(Begin([name |-> "getCart"]), "getCart", "getCartContents")
    IN /\ nextOp <= MaxOps
       /\ nextCall <= MaxCalls
       /\ nextCall = nextOp
       /\ Commit(nextOp, S)
       /\ nextOp' = nextOp + 1
       /\ calls' = [calls EXCEPT ![nextCall] =
                       callActionFrom(IdleCall, S.op.sent.action, S.op.sent.args, "",
                                      NoOptions)]
       /\ nextCall' = nextCall + 1
       /\ UNCHANGED <<envVars, callerArgs>>

\* lines 117-132: the fetch promise resolves with the response headers
PageFetchResolves(i, status, ct) ==
    /\ calls[i].pc = "fetch"
    /\ calls' = [calls EXCEPT ![i] = Responded(calls[i], status, ct)]
    /\ received' = [received EXCEPT ![i] =
                       [arrived |-> TRUE, status |-> status, contentType |-> ct,
                        body |-> NoBody]]
    /\ UNCHANGED <<hasWindow, locationOrigin, windowOrigin, serverVars, formatted, kept,
                   fern, nextCall, callerArgs, cartVars>>

\* lines 133-137: the body arrives; res.json() parses it or throws,
\* res.text() returns it
PageBodyArrives(i, body) ==
    /\ calls[i].pc = "body"
    /\ calls' = [calls EXCEPT ![i] =
                    IF calls[i].reading = "json"
                    THEN IF body.parses
                         THEN Returned(calls[i], [settled |-> "resolved",
                                                  result |-> OkReturn(body.value)])
                         ELSE Caught(calls[i], JsonSyntaxError)
                    ELSE Returned(calls[i], [settled |-> "resolved",
                                             result |-> OkReturn(JStr(body.text))])]
    /\ received' = [received EXCEPT ![i].body = body]
    /\ UNCHANGED <<hasWindow, locationOrigin, windowOrigin, serverVars, formatted, kept,
                   fern, nextCall, callerArgs, cartVars>>

\* the operation that awaits invocation o resumes with what it resolved to
PageResumes(o) ==
    /\ o \in CallIds
    /\ calls[o].pc = "done"
    /\ callActionResolves(o, calls[o].result)

NextPage ==
    \/ \E name \in PageOperations : PageCalls(name)
    \/ \E i \in CallIds : TimerFires(i)
    \/ \E i \in CallIds, status \in PageStatuses, ct \in PageContentTypes :
          PageFetchResolves(i, status, ct)
    \/ \E i \in CallIds : FetchRejects(i, NetworkError)
    \/ \E i \in CallIds, body \in PageBodies : PageBodyArrives(i, body)
    \/ \E i \in CallIds : BodyRejects(i, NetworkError)
    \/ \E o \in OpIds : PageResumes(o)

\* callAction called directly
SpecTransport == Init /\ [][NextTransport]_vars
\* callAction with timers that fire: an armed timer is not armed for ever,
\* while the network may leave a request or a body unanswered
SpecTransportLive ==
    Init /\ [][NextTransport]_vars /\ \A i \in CallIds : WF_vars(TimerFires(i))
\* the cart facade over callAction
SpecCart == Init /\ [][NextCart]_vars
\* the cart facade and formatPrice
SpecShop == Init /\ [][NextShop]_vars
\* formatPrice and the operations that set what it reads
SpecPrice == Init /\ [][NextPrice]_vars
\* formatPrice and the currency positions
SpecPosition == Init /\ [][NextPosition]_vars
\* the cart facade called by a caller that changes the results
SpecKept == Init /\ [][NextKept]_vars
\* callAction called again and again with the same objects
SpecCaller == Init /\ [][NextCaller]_vars
\* the cart facade over callAction and the responses of the network
SpecPage == Init /\ [][NextPage]_vars
\* the fern-woo variant of the cart facade
SpecFern == Init /\ [][NextFern]_vars
\* cart operations called in sequence against the deterministic server
SpecServer == InitServer /\ [][NextServer]_vars

(***************************************************************************)
(* Properties of callAction                                                *)
(***************************************************************************)
Done(i) == calls[i].pc = "done"

\* C1: callAction never rejects: whatever the network did (2xx, non-2xx, fetch
\* rejection, abort by the timer, failure while reading the body) a call that
\* has returned resolved, to a result with status 'ok' or 'error'.
C1_NeverRejects ==
    \A i \in CallIds :
        /\ calls[i].settled # "rejected"
        /\ Done(i) => /\ calls[i].settled = "resolved"
                      /\ calls[i].result.status \in {"ok", "error"}

\* calls ended by a non-2xx response and by a failed body read, both resolved
C1_Witness ==
    \E i, j \in CallIds :
        /\ Done(i) /\ calls[i].resStatus = 503 /\ calls[i].settled = "resolved"
        /\ Done(j) /\ calls[j].resStatus = 200 /\ calls[j].settled = "resolved"
        /\ calls[j].result.status = "error"

\* the text of the timeout a call was given: options.timeout, or 30000
C5_TimeoutText(options) ==
    IF "timeout" \in DOMAIN options THEN ToString(options.timeout) ELSE "30000"

\* C5: when the timer fires before the fetch has completed, the request is
\* aborted and the call resolves to the 408 result whose message names
\* options.timeout, or 30000 when no timeout was given.
C5_TimeoutResult ==
    \A i \in CallIds :
        calls[i].timer = "fired" =>
            /\ Done(i) /\ calls[i].aborted /\ calls[i].settled = "resolved"
            /\ calls[i].resStatus = 0
            /\ calls[i].result =
                 [status |-> "error",
                  error |-> [message |-> "Request timeout after "
                                           \o C5_TimeoutText(calls[i].options) \o "ms",
                             status |-> 408]]

\* two calls timed out, one with the default and one with its own timeout
C5_Witness ==
    \E i, j \in CallIds :
        /\ calls[i].timer = "fired" /\ calls[i].options = NoOptions
        /\ calls[i].result.error.message = "Request timeout after 30000ms"
        /\ calls[j].timer = "fired" /\ calls[j].options = [timeout |-> 5000]
        /\ calls[j].result.error.message = "Request timeout after 5000ms"

\* C6: when the origin of the request target differs from the page origin,
\* every call resolves to an error result with status 403, issues no network
\* request and arms no timer.
C6_CrossOriginBlocked ==
    (hasWindow /\ locationOrigin # windowOrigin) =>
        \A i \in CallIds :
            calls[i].pc # "idle" =>
                /\ Done(i) /\ calls[i].settled = "resolved"
                /\ calls[i].result.status = "error"
                /\ calls[i].result.error.status = 403
                /\ calls[i].fetches = 0
                /\ calls[i].timer = "none"

\* a call made from a page whose origins differ
C6_Witness ==
    /\ hasWindow /\ locationOrigin # windowOrigin
    /\ \E i \in CallIds : Done(i) /\ calls[i].result.status = "error"

\* C7: a response with a non-2xx status never yields 'ok': the call resolves
\* to the error result 'HTTP error <status>' carrying that same status.
C7_HttpError ==
    \A i \in CallIds :
        (calls[i].resStatus # 0 /\ ~(calls[i].resStatus \in 200..299)) =>
            /\ Done(i) /\ calls[i].settled = "resolved"
            /\ calls[i].result =
                 [status |-> "error",
                  error |-> [message |-> "HTTP error " \o ToString(calls[i].resStatus),
                             status |-> calls[i].resStatus]]

\* a 404 and a 503 response, each reported with its own status
C7_Witness ==
    \E i, j \in CallIds :
        /\ calls[i].resStatus = 404 /\ calls[i].result.error.status = 404
        /\ calls[i].result.error.message = "HTTP error 404"
        /\ calls[j].resStatus = 503 /\ calls[j].result.error.status = 503

\* C8: every result of callAction has exactly one of two shapes: status 'ok'
\* with data and no error, or status 'error' with error {message, status:
\* number} and no data.
C8_ResultShape ==
    \A i \in CallIds :
        calls[i].settled = "resolved" =>
            \/ /\ calls[i].result.status = "ok"
               /\ DOMAIN calls[i].result = {"status", "data"}
            \/ /\ calls[i].result.status = "error"
               /\ DOMAIN calls[i].result = {"status", "error"}
               /\ DOMAIN calls[i].result.error = {"message", "status"}
               /\ calls[i].result.error.status \in Nat

\* an ok result with a falsy payload beside an error result
C8_Witness ==
    \E i, j \in CallIds :
        /\ calls[i].settled = "resolved" /\ calls[i].result.status = "ok"
        /\ ~Truthy(calls[i].result.data)
        /\ calls[j].settled = "resolved" /\ calls[j].result.status = "error"

\* C20: concurrent calls of callAction do not interfere.  A call is aborted
\* only by its own timer, and a step of one call (its timer firing, its
\* response, its failure) changes nothing of any other call, so every call
\* proceeds and ends as it would alone.
C20_NoInterference ==
    /\ [](\A i \in CallIds : calls[i].aborted => calls[i].timer = "fired")
    /\ [][\A i \in CallIds :
             calls'[i] # calls[i] =>
                 \A j \in CallIds \ {i} : calls'[j] = calls[j]]_vars

\* the second call has timed out and the first, made before it, is still
\* waiting for its response with its timer armed
C20_Witness ==
    \E i, j \in CallIds :
        /\ i < j /\ calls[j].timer = "fired" /\ Done(j)
        /\ calls[j].result.error.status = 408
        /\ calls[i].pc = "fetch" /\ calls[i].timer = "armed" /\ ~calls[i].aborted

\* C21: on every path by which callAction returns after it armed its timer
\* (ok result, HTTP error, network failure, timeout, failure while building
\* the body) the timer is no longer pending: it was cleared, or it has fired.
\* A call that returned at a guard never armed one.
C21_TimerCleared ==
    \A i \in CallIds :
        Done(i) =>
            /\ calls[i].timer \in {"none", "cleared", "fired"}
            /\ calls[i].timer = "none" <=> calls[i].timeout = 0
            /\ calls[i].timer = "fired" <=> calls[i].aborted

\* one call returned an ok result and another failed while building its
\* body, both with their timer cleared
C21_Witness ==
    \E i, j \in CallIds :
        /\ Done(i) /\ calls[i].result.status = "ok" /\ calls[i].timer = "cleared"
        /\ Done(j) /\ calls[j].fetches = 0 /\ calls[j].timer = "cleared"
        /\ calls[j].result.error.status = 500

\* C22: when args is neither a form payload nor an object (a string, a
\* number, a boolean, null), the request goes out with an empty mapping in
\* its place: the args of the JSON body are {} when the nonce is empty and
\* { _nonce } when it is not.
C22_InvalidArgsReplaced ==
    \A i \in CallIds :
        (calls[i].pc = "fetch" /\ ~(calls[i].args.t \in {"object", "formdata"})) =>
            Get(calls[i].request.body, "args") =
                IF calls[i].nonce = "" THEN JObj(EmptyMap)
                ELSE JObj([_nonce |-> JStr(calls[i].nonce)])

\* C23 as stated: a call issues at most one request, and the object passed
\* as args is after the call what it was before it, be it a mapping or a
\* form payload.
C23_ArgsUntouched ==
    /\ \A i \in CallIds : calls[i].fetches <= 1
    /\ callerArgs.map = CallerMap
    /\ callerArgs.form = CallerForm

\* the error result the claim describes for a cause
C32_Described(err) ==
    ErrorResult(IF err.isError THEN err.message ELSE "Request failed",
                IF "status" \in DOMAIN err THEN err.status ELSE 500)

\* C32: a call whose catch block caught a cause other than the abort of its
\* timer (the fetch or the reading of the body failed, the response was not
\* 2xx, the body could not be built) has resolved to an error result whose
\* message is that of the cause, or 'Request failed' for a cause that is no
\* Error, and whose status is the one the cause carries, or 500.
C32_FailureResult ==
    \A i \in CallIds :
        (Done(i) /\ calls[i].cause # NoCause /\ calls[i].cause # AbortError) =>
            /\ calls[i].settled = "resolved"
            /\ calls[i].result = C32_Described(calls[i].cause)

\* one call failed with a cause that is no Error, another with a network
\* error
C32_Witness ==
    \E i, j \in CallIds :
        /\ Done(i) /\ calls[i].cause = ThrownString
        /\ calls[i].result = ErrorResult("Request failed", 500)
        /\ Done(j) /\ calls[j].cause = NetworkError
        /\ calls[j].result = ErrorResult("Failed to fetch", 500)

\* C33: outside a browser context every call is over when it returns, with
\* the status-400 error result of the first guard (not the 403 of the origin
\* guard), no timer armed and no request issued.
C33_BrowserGuardFirst ==
    ~hasWindow =>
        \A i \in CallIds :
            calls[i].pc # "idle" =>
                /\ Done(i) /\ calls[i].settled = "resolved"
                /\ calls[i].result =
                       ErrorResult("you can only call actions from the browser", 400)
                /\ calls[i].timer = "none" /\ calls[i].timeout = 0
                /\ calls[i].fetches = 0 /\ calls[i].cause = NoCause

\* two calls were made outside a browser context
C33_Witness ==
    /\ ~hasWindow
    /\ \A i \in 1..2 : Done(i) /\ calls[i].result.error.status = 400

\* C34 as stated: timers firing, every call made is done in the end,
\* whatever the network does, a body that never arrives included.
C34_EventuallyResolves ==
    \A i \in CallIds : (calls[i].pc # "idle") ~> Done(i)

\* C35 as stated: for a plain mapping the body sent is the JSON of
\* {action, args: A, _nonce: nonce}, A being the mapping with _nonce set to
\* the nonce, for every nonce, the empty one included.
C35_ArgsCarryNonce ==
    \A i \in CallIds :
        (calls[i].pc = "fetch" /\ calls[i].args.t = "object") =>
            calls[i].request.body =
                Stringify(JObj([action |-> JStr(calls[i].action),
                                args |-> JObj(WithKey(calls[i].args.v, "_nonce",
                                                      JStr(calls[i].nonce))),
                                _nonce |-> JStr(calls[i].nonce)]))

(***************************************************************************)
(* Properties of the cart facade                                           *)
(***************************************************************************)
Settled(o) == ops[o].pc \in {"resolved", "rejected"}
InFlight(o) == ops[o].pc = "await"

\* C2: once every cart operation that was called has settled, resolved or
\* rejected and in whatever order the responses came, the loading counter is
\* 0 and $cartIsLoading is false; a settled operation has made as many
\* decrements as increments.
C2_CounterUnwinds ==
    /\ (\A o \in OpIds : ~InFlight(o)) =>
           loadingOperationsCount = 0 /\ cartIsLoading = FALSE
    /\ \A o \in OpIds : Settled(o) => ops[o].incs = ops[o].decs

\* all operations settled, one resolved after a response, one rejected after
\* it had incremented
C2_Witness ==
    /\ nextOp > MaxOps
    /\ \A o \in OpIds : Settled(o)
    /\ \E o, r \in OpIds :
          /\ ops[o].pc = "resolved" /\ ops[o].incs >= 1
          /\ ops[r].pc = "rejected" /\ ops[r].incs >= 1

\* C3: the loading counter is never negative and $cartIsLoading is true
\* exactly when the counter is above 0.
C3_CounterAndFlag ==
    /\ loadingOperationsCount >= 0
    /\ cartIsLoading <=> (loadingOperationsCount > 0)

\* one operation settled while an earlier one is still in flight
C3_Witness ==
    \E o, p \in OpIds :
        /\ o < p /\ InFlight(o) /\ ops[p].pc = "resolved"
        /\ loadingOperationsCount = 1 /\ cartIsLoading

\* C4: while an operation that was started has not settled, $cartIsLoading is
\* true; so it turns false only in the step in which the last one settles.
C4_LoadingWhileInFlight ==
    (\E o \in OpIds : InFlight(o)) => cartIsLoading

\* a later operation has settled, the earlier one it ran beside has not
C4_Witness ==
    \E o, p \in OpIds :
        /\ o < p /\ InFlight(o) /\ Settled(p) /\ ops[p].incs >= 1
        /\ cartIsLoading

\* the message of the error updateQuantity throws for quantity -1
C9_InvalidQuantity ==
    "Invalid quantity: -1. Quantity must be positive. Use removeFromCart() to remove items."

\* C9: updateQuantity(key, q) with q < 0 rejects at once: it never waits for a
\* transport call, and the rejected call has issued no transport call, has
\* not written $cart, and has neither incremented nor decremented the counter
\* (so the counter and $cartIsLoading are as before).
C9_NegativeQuantity ==
    \A o \in OpIds :
        /\ (InFlight(o) /\ ops[o].entry.name = "updateQuantity") =>
               ops[o].entry.quantity >= 0
        /\ (ops[o].pc = "rejected" /\ ops[o].entry.name = "updateQuantity") =>
               /\ ops[o].err.message = C9_InvalidQuantity
               /\ ops[o].callsMade = 0 /\ ops[o].writes = 0
               /\ ops[o].incs = 0 /\ ops[o].decs = 0

\* updateQuantity(key, -1) rejected while another operation is in flight,
\* which the counter still counts
C9_Witness ==
    \E o, p \in OpIds :
        /\ ops[p].pc = "rejected" /\ ops[p].entry.name = "updateQuantity"
        /\ InFlight(o) /\ loadingOperationsCount = 1 /\ cartIsLoading

\* C10: updateQuantity(key, 0) issues the transport call removeFromCart(key)
\* issues, action 'removeFromCart' with cart_item_key = key, and no other;
\* it never issues 'updateCartItemQuantity'.
C10_ZeroQuantityRemoves ==
    \A o \in OpIds :
        /\ (ops[o].entry.name = "updateQuantity" /\ ops[o].pc # "rejected") =>
               /\ InFlight(o) /\ ops[o].callsMade = 1
               /\ ops[o].entry.quantity = 0 =>
                    /\ ops[o].sent =
                         [action |-> "removeFromCart",
                          args |-> JObj([cart_item_key |-> JStr(ops[o].entry.cartItemKey)])]
                    /\ \A p \in OpIds :
                          (/\ InFlight(p) /\ ops[p].entry.name = "removeFromCart"
                           /\ ops[p].entry.cartItemKey = ops[o].entry.cartItemKey) =>
                              ops[p].sent = ops[o].sent
        /\ (ops[o].pc = "rejected" /\ ops[o].entry.name = "updateQuantity") =>
               ops[o].err.message = C9_InvalidQuantity

\* updateQuantity("k2", 0) and removeFromCart("k2") both in flight
C10_Witness ==
    \E o, p \in OpIds :
        /\ InFlight(o) /\ ops[o].entry.name = "updateQuantity"
        /\ ops[o].entry.quantity = 0 /\ ops[o].entry.cartItemKey = "k2"
        /\ InFlight(p) /\ ops[p].entry.name = "removeFromCart"
        /\ ops[p].entry.cartItemKey = "k2"

\* the three ways C11 names in which a transport result fails validation
C11_Fails(r) ==
    \/ r.status = "error"
    \/ /\ r.status = "ok"
       /\ \/ ~Truthy(r.data) \/ TypeOf(r.data) # "object"
          \/ ~In("cart", r.data)
          \/ Get(r.data, "cart").t \in {"null", "undefined"}

\* C11: in every operation that goes through the shared validation, a
\* transport result with status 'error', with a payload that is not an
\* object, or with a payload without a cart (no cart key, or a null cart)
\* makes the operation resolve, not reject, with that very result, and the
\* step leaves $cart as it was.
C11_ValidationFailureAbsorbed ==
    [][\A o \in OpIds :
          (/\ ops[o].pc = "await" /\ ops[o].running # "initializeCart"
           /\ ops'[o].pc # "await" /\ C11_Fails(ops'[o].got)) =>
              /\ ops'[o].pc = "resolved"
              /\ ops'[o].ret = ops'[o].got
              /\ cart' = cart]_vars

\* a response without a cart arrived after one that had written $cart, and
\* the operation resolved with it
C11_Witness ==
    \E o, p \in OpIds :
        /\ ops[p].seq = 1 /\ ops[p].writes = 1
        /\ ops[o].seq = 2 /\ ops[o].by = "updateCartStore"
        /\ ops[o].pc = "resolved" /\ ops[o].writes = 0
        /\ ops[o].got = OkResult(JObj([cart |-> JNull, config |-> ShopConfigA]))
        /\ ops[o].ret = ops[o].got
        /\ cart # InitialCart

\* the context updateQuantity and updateCartItem put before the cause when
\* they wrap an error (lines 281 and 348)
C12_Context(name, cartItemKey) ==
    IF name = "updateQuantity"
    THEN "Failed to update quantity for cart item " \o cartItemKey
    ELSE "Failed to update cart item " \o cartItemKey

\* C12: every rejection of a cart operation is an Error whose message is
\* the operation's context followed by the message of the cause, and whose
\* cause property is the original error; also when the cause is a negative
\* quantity or a cart item that was not found.
C12_RejectionsWrapped ==
    \A o \in OpIds :
        ops[o].pc = "rejected" =>
            /\ "cause" \in DOMAIN ops[o].err
            /\ \E k \in Keys :
                  ops[o].err.message =
                      C12_Context(ops[o].entry.name, k) \o ": " \o ops[o].err.cause.message

\* a status-'ok' result whose payload carries the marker status: 'error'
C13_SoftFailure(r) ==
    /\ r.status = "ok"
    /\ In("status", r.data) /\ IsStr(Get(r.data, "status"), "error")

\* C13: in every operation that returns cart data, initializeCart included,
\* a status-'ok' result whose payload carries the marker status: 'error'
\* causes no store write: the step that takes the response leaves $cart and
\* $shopConfig as they were, also when the payload has a cart and a config.
C13_SoftFailureWritesNothing ==
    [][\A o \in OpIds :
          (/\ ops[o].pc = "await" /\ ops'[o].pc # "await"
           /\ C13_SoftFailure(ops'[o].got)) =>
              /\ cart' = cart
              /\ shopConfig' = shopConfig]_vars

\* a status-'ok' result that reaches the shape check of getCartFromResult
\* with a cart that fails it
C14_Malformed(r) ==
    /\ r.status = "ok" /\ ~C11_Fails(r) /\ ~C13_SoftFailure(r)
    /\ ~isValidCart(Get(r.data, "cart"))

C15_Complete(r) ==
    /\ r.status = "ok"
    /\ ~(Get(r.data, "cart").t \in {"null", "undefined"})
    /\ ~(Get(r.data, "config").t \in {"null", "undefined"})

\* C15: initializeCart writes both stores or neither.  When the result is
\* 'ok' and its payload has a non-null cart and a non-null config, the step
\* that takes the response sets $cart and $shopConfig from that payload;
\* when the cart or the config is missing or null, or the result is an
\* error, it leaves both stores as they were.  In both cases the call
\* resolves with the result.
C15_BothStoresOrNeither ==
    [][\A o \in OpIds :
          (/\ ops[o].pc = "await" /\ ops[o].running = "initializeCart"
           /\ ops'[o].pc # "await") =>
              /\ ops'[o].pc = "resolved" /\ ops'[o].ret = ops'[o].got
              /\ IF C15_Complete(ops'[o].got)
                 THEN /\ cart' = Get(ops'[o].got.data, "cart")
                      /\ shopConfig' = Get(ops'[o].got.data, "config")
                 ELSE /\ cart' = cart
                      /\ shopConfig' = shopConfig]_vars

\* one initializeCart took a complete payload and wrote both stores, a later
\* one took a payload without config and wrote neither
C15_Witness ==
    \E o, p \in OpIds :
        /\ ops[o].seq = 1 /\ ops[o].by = "initializeCart"
        /\ ops[o].got = OkResult(JObj([cart |-> CartB, config |-> ShopConfigA]))
        /\ ops[p].seq = 2 /\ ops[p].by = "initializeCart" /\ ops[p].pc = "resolved"
        /\ ops[p].got = OkResult(JObj([cart |-> CartA]))
        /\ cart = CartB /\ shopConfig = ShopConfigA

\* the response operation o took passed the validation of the function that
\* took it
C16_Passed(o) ==
    /\ ops[o].seq > 0
    /\ IF ops[o].by = "initializeCart"
       THEN C15_Complete(ops[o].got)
       ELSE /\ ops[o].got.status = "ok"
            /\ ~C11_Fails(ops[o].got) /\ ~C13_SoftFailure(ops[o].got)

\* the cart of the response operation o took: the response cart, over the
\* defaults when an updating operation finds it malformed
C16_CartOf(o) ==
    LET c == Get(ops[o].got.data, "cart")
    IN IF ops[o].by = "initializeCart" \/ isValidCart(c) THEN c
       ELSE JObj([k \in DOMAIN DEFAULT_CART.v \cup DOMAIN Spread(c) |->
                    IF k \in DOMAIN Spread(c) THEN Spread(c)[k] ELSE DEFAULT_CART.v[k]])

\* C16: last response wins.  With operations in flight at once, $cart is the
\* cart of the response that arrived last among those that passed
\* validation, whatever the order in which the operations were called: a
\* response that arrives first is overwritten by one that arrives later,
\* also when the later one belongs to the operation called earlier.
C16_LastResponseWins ==
    LET passed == { o \in OpIds : C16_Passed(o) }
    IN IF passed = {} THEN cart = InitialCart
       ELSE \E o \in passed :
               /\ \A p \in passed : ops[p].seq <= ops[o].seq
               /\ cart = C16_CartOf(o)

\* the operation called second got its response first, the operation called
\* first got its response second, and $cart holds the cart of the latter
C16_Witness ==
    \E o, p \in OpIds :
        /\ o < p /\ ops[p].seq = 1 /\ ops[o].seq = 2
        /\ ops[o].by = "updateCartStore" /\ ops[p].by = "updateCartStore"
        /\ ops[p].got = OkResult(JObj([cart |-> CartB, config |-> ShopConfigA]))
        /\ ops[o].got = OkResult(JObj([cart |-> CartA]))
        /\ \A q \in OpIds : ~InFlight(q)
        /\ cart = CartA

\* operation o is updateCartItem called with a quantity and with neither
\* variationId nor variation
C17_QuantityOnly(o) ==
    /\ ops[o].entry.name = "updateCartItem"
    /\ "quantity" \in DOMAIN ops[o].entry /\ ops[o].entry.quantity.t = "number"
    /\ ops[o].entry.variationId.t = "undefined"
    /\ ops[o].entry.variation.t = "undefined"

\* C17: updateCartItem called with a quantity and no variation change
\* delegates to updateQuantity whatever the quantity (positive, zero,
\* negative): the transport call it waits for is the one updateQuantity
\* issues for that key and quantity, never the 'updateCartItem' action.
C17_QuantityOnlyDelegates ==
    \A o \in OpIds :
        (C17_QuantityOnly(o) /\ InFlight(o)) =>
            /\ ops[o].sent.action # "updateCartItem"
            /\ ops[o].sent =
                 IF ops[o].entry.quantity.v = 0
                 THEN [action |-> "removeFromCart",
                       args |-> JObj([cart_item_key |-> JStr(ops[o].entry.cartItemKey)])]
                 ELSE [action |-> "updateCartItemQuantity",
                       args |-> JObj([cart_item_key |-> JStr(ops[o].entry.cartItemKey),
                                      quantity |-> ops[o].entry.quantity])]

\* cartItemKey is not the key of any item of the $cart snapshot
C18_NotInCart(cartItemKey) ==
    LET items == Get(cart, "items")
    IN ~(/\ items.t = "array"
         /\ \E n \in DOMAIN items.v : IsStr(Get(items.v[n], "key"), cartItemKey))

\* C18: updateCartItem with a variation change for a key that is not the key
\* of any item in the $cart snapshot rejects with the 'not found' error
\* within the call, issues no transport call, leaves $cart unchanged and
\* leaves the loading counter at the value it had before the call.
C18_NotFoundRejects ==
    [][\A k \in Keys, q \in ItemQuantities, change \in VariationChanges :
          (/\ Truthy(change.variationId) \/ Truthy(change.variation)
           /\ C18_NotInCart(k)
           /\ updateCartItem(k, q, change)) =>
              /\ ops'[nextOp].pc = "rejected"
              /\ ops'[nextOp].err.message =
                     "Failed to update cart item " \o k \o ": Cart item not found"
              /\ ops'[nextOp].err.cause.message = "Cart item not found"
              /\ ops'[nextOp].callsMade = 0
              /\ cart' = cart
              /\ loadingOperationsCount' = loadingOperationsCount]_vars

(***************************************************************************)
(* Properties of the cart facade against the deterministic server          *)
(***************************************************************************)
\* C19: against the deterministic server, updateQuantity(key, n) called twice
\* in sequence with the same n leaves $cart equal to the $cart the first of
\* the two calls left; and $cart is the cart the latest answered call left.
C19_UpdateQuantityIdempotent ==
    /\ \A i \in 1..(Len(served) - 1) :
          (/\ served[i].entry.name = "updateQuantity"
           /\ served[i + 1].entry = served[i].entry) =>
              served[i + 1].cart = served[i].cart
    /\ served # << >> => cart = served[Len(served)].cart

\* updateQuantity("k1", 2) answered twice in a row; $cart holds k1 with
\* quantity 2, which is not what the server started with, and k2 as it was
C19_Witness ==
    /\ Len(served) = 2
    /\ served[1].entry = [name |-> "updateQuantity", cartItemKey |-> "k1", quantity |-> 2]
    /\ served[2].entry = served[1].entry
    /\ cart = ServerCart(<<CartItemOf("k1", 123, 2), CartItemOf("k2", 123, 3)>>, 5, "50")


(***************************************************************************)
(* Properties of the stores and of formatPrice                             *)
(***************************************************************************)
\* C24: only initializeCart writes $shopConfig.  A step that changes the
\* store is the step in which an initializeCart call takes its response;
\* the other nine operations, at their call and at their response, and
\* formatPrice leave the store as it was.
C24_OnlyInitializeCartWritesConfig ==
    [][\/ shopConfig' = shopConfig
       \/ \E o \in OpIds : /\ ops[o].pc = "await" /\ ops[o].running = "initializeCart"
                           /\ ops'[o].pc = "resolved"]_vars

\* initializeCart has written the first configuration; after it another
\* operation took a response carrying a second configuration, and
\* formatPrice ran on the first
C24_Witness ==
    \E o, p \in OpIds :
        /\ ops[o].by = "initializeCart" /\ ops[o].seq = 1
        /\ ops[p].by = "updateCartStore" /\ ops[p].seq = 2
        /\ ops[p].got = OkReturn(JObj([cart |-> CartB, config |-> ShopConfigB]))
        /\ shopConfig = ShopConfigA
        /\ formatted.called /\ formatted.config = ShopConfigA
        /\ ~formatted.outcome.threw

\* C25 as stated: until an initializeCart call has succeeded, that is has
\* taken a response with a cart and a config, $cart holds its initial value.
C25_InitialUntilInitialized ==
    (\A o \in OpIds : ~(ops[o].by = "initializeCart" /\ C15_Complete(ops[o].got)))
        => cart = InitialCart

\* the sum of the quantities of the items of a cart
RECURSIVE C26_SumOfQuantities(_)
C26_SumOfQuantities(items) ==
    IF items = << >> THEN 0
    ELSE Get(Head(items), "quantity").v + C26_SumOfQuantities(Tail(items))

\* C26 as stated: in every reachable state $cart.item_count is the sum of
\* the quantities of $cart.items, every well-formed cart of a response
\* satisfying that equality.
C26_ItemCountIsSum ==
    /\ Get(cart, "items").t = "array"
    /\ Get(cart, "item_count") = JNum(C26_SumOfQuantities(Get(cart, "items").v))

\* the action name of each operation
C27_ActionOf(name) ==
    CASE name = "initializeCart" -> "getInitialState"
      [] name = "updateQuantity" -> "updateCartItemQuantity"
      [] name = "getCart" -> "getCartContents"
      [] OTHER -> name
\* the calls the claim speaks of: of updateCartItem those with a variation
\* change, of updateQuantity those with a positive quantity
C27_Covered(entry) ==
    /\ entry.name = "updateCartItem" => Truthy(entry.variationId)
    /\ entry.name = "updateQuantity" => entry.quantity > 0

\* C27: an operation that passes its preconditions issues exactly one
\* transport call, under the action name fixed for it; batchAddToCart issues
\* one call whatever the length of its list, and an operation that got an
\* error result has issued one call and is over.
C27_OneCallFixedAction ==
    \A o \in OpIds :
        /\ ops[o].callsMade <= 1
        /\ ops[o].pc \in {"await", "resolved"} => ops[o].callsMade = 1
        /\ (ops[o].pc = "await" /\ C27_Covered(ops[o].entry)) =>
               ops[o].sent.action = C27_ActionOf(ops[o].entry.name)
        /\ ops[o].got.status = "error" => ops[o].pc = "resolved" /\ ops[o].callsMade = 1

\* a batchAddToCart with a list of two items waits for its one call, after
\* another operation got an error result and ended with one call
C27_Witness ==
    \E o, p \in OpIds :
        /\ ops[o].pc = "await" /\ ops[o].entry.name = "batchAddToCart"
        /\ Len(ops[o].entry.items) = 2 /\ ops[o].callsMade = 1
        /\ Len(Get(ops[o].sent.args, "items").v) = 2
        /\ ops[p].pc = "resolved" /\ ops[p].got.status = "error" /\ ops[p].callsMade = 1

\* C28: the cart addToCart or batchAddToCart committed is a copy: it equals
\* the validated cart of the result as returned, shares nothing with it, and
\* stays what it was whatever the caller does to result.data.cart afterwards.
C28_CloneIsolated ==
    (kept.op # 0 /\ kept.name \in {"addToCart", "batchAddToCart"} /\ kept.wrote) =>
        /\ kept.shares = "none"
        /\ kept.committed = getCartFromResult(kept.original)
        /\ cart = kept.committed

\* addToCart committed a cart, and the caller then changed the item count
\* and the items of the cart in the result
C28_Witness ==
    /\ kept.op # 0 /\ kept.name = "addToCart" /\ kept.wrote
    /\ kept.original = OkReturn(JObj([cart |-> CartA]))
    /\ Get(kept.result.data, "cart") =
           ChangedCart(ChangedCart(CartA, "items"), "item_count")
    /\ cart = CartA

\* whether an initializeCart call has succeeded
C29_Initialized ==
    \E o \in OpIds : ops[o].by = "initializeCart" /\ C15_Complete(ops[o].got)

\* C29: formatPrice throws the 'Shop config not initialized' error exactly
\* when $shopConfig lacks one of the five fields, so it returns no string
\* made with a default; every call made before an initializeCart call has
\* succeeded throws; and a call of formatPrice leaves the stores, the
\* loading counter and the transport calls as they were.
C29_FailsFastWithoutConfig ==
    [][(\E price \in Prices : formatPrice(price)) =>
          /\ formatted'.outcome.threw <=>
                 \E f \in ConfigFields : f \notin DOMAIN shopConfig.v
          /\ formatted'.outcome.threw => formatted'.outcome.err = NotInitialized
          /\ ~C29_Initialized => formatted'.outcome.threw
          /\ UNCHANGED <<cartVars, callVars>>]_vars

\* an initializeCart call stored a configuration without a currency
\* position and formatPrice was called on it
C29_Witness ==
    /\ C29_Initialized
    /\ shopConfig = ShopConfigLacking("currency_position")
    /\ formatted.called /\ formatted.config = shopConfig
    /\ formatted.outcome.threw

\* the digits of an integer part with the separator every three digits from
\* the right
RECURSIVE C30_Grouped(_, _)
C30_Grouped(ds, sep) ==
    IF Len(ds) <= 3 THEN ds
    ELSE C30_Grouped(SubSeq(ds, 1, Len(ds) - 3), sep) \o sep
         \o SubSeq(ds, Len(ds) - 2, Len(ds))

\* the string the claim describes: the integer part grouped, the fractional
\* part as toFixed gave it
C30_Described(config, price) ==
    LET d == Get(config, "price_decimals").v
        fixed == toFixed(Abs(price), d)
        whole == IF d = 0 THEN fixed ELSE SubSeq(fixed, 1, Len(fixed) - d - 1)
        fraction == IF d = 0 THEN << >> ELSE SubSeq(fixed, Len(fixed) - d + 1, Len(fixed))
    IN Positioned(config, price,
           Join(C30_Grouped(whole, Chars(Get(config, "thousand_separator").v))
                \o (IF d = 0 THEN << >> ELSE Chars(Get(config, "decimal_separator").v))
                \o fraction))

\* C30 as stated: for every number of decimals, formatPrice puts the
\* thousand separator into the integer part only, every three digits from
\* the right, and leaves the fractional digits as they are.
C30_FractionUntouched ==
    (formatted.called /\ ~formatted.outcome.threw) =>
        formatted.outcome.value = C30_Described(formatted.config, formatted.price)

\* the output the claim describes, the number being the formatted absolute
\* amount
C31_Described(config, price) ==
    LET number == FormattedNumber(config, Abs(price))
        symbol == Get(config, "currency_symbol").v
        position == Get(config, "currency_position").v
        space == IF position \in {"left_space", "right_space"} THEN " " ELSE ""
    IN (IF price.num < 0 THEN "-" ELSE "")
       \o (IF position \in {"right", "right_space"}
           THEN number \o space \o symbol
           ELSE symbol \o space \o number)

\* C31: what formatPrice returns is a minus sign exactly for a negative
\* amount, then symbol and number in the order and with the space of the
\* currency position, any unknown position counting as left; 1234.56 gives
\* "$1,234.56" and -10 gives "-$10.00" under 2 decimals, '.', ',', '$', left.
C31_SignSymbolNumber ==
    (formatted.called /\ ~formatted.outcome.threw) =>
        /\ formatted.outcome.value = C31_Described(formatted.config, formatted.price)
        /\ (formatted.config = ShopConfigA /\ formatted.price = Price(123456, 2)) =>
               formatted.outcome.value = "$1,234.56"
        /\ (formatted.config = ShopConfigA /\ formatted.price = Price(-10, 0)) =>
               formatted.outcome.value = "-$10.00"

\* a negative amount was formatted under a position the switch does not name
C31_Witness ==
    /\ formatted.called /\ formatted.config = ShopConfigAt("top")
    /\ formatted.price = Price(-10, 0)
    /\ formatted.outcome = ReturnedString("-$10.00")

(***************************************************************************)
(* Properties of the cart facade over the transport                        *)
(***************************************************************************)
\* the media type the header declares is JSON
C36_IndicatesJson(ct) == ct # << >> /\ ct[1] = "application/json"
\* the body of the 2xx response to invocation o has been read: as JSON it
\* parsed, or it was read as text
C36_BodyRead(o) ==
    /\ received[o].arrived
    /\ received[o].status \in 200..299
    /\ received[o].body.sent
    /\ (C36_IndicatesJson(received[o].contentType) => received[o].body.parses)

\* C36: once the body of a 2xx response has been read, callAction has
\* resolved with status 'ok' and no error, and data is the value the body
\* parses to when the content-type header declares JSON, the text of the
\* body as a string otherwise (header absent included); the cart operation
\* that awaited a call which returned such a text has, once it resumed,
\* returned that result and made no write to $cart.
C36_ParsedOrRawText ==
    \A o \in CallIds :
        C36_BodyRead(o) =>
            LET body == received[o].body
                json == C36_IndicatesJson(received[o].contentType)
            IN /\ calls[o].pc = "done"
               /\ calls[o].settled = "resolved"
               /\ calls[o].result =
                      [status |-> "ok", data |-> IF json THEN body.value ELSE JStr(body.text)]
               /\ (~json /\ o \in OpIds /\ ops[o].pc = "resolved") =>
                      /\ ops[o].ret = calls[o].result
                      /\ ops[o].writes = 0
\* one operation resumed with a parsed cart and wrote it; another got the
\* same bytes declared text/html, as a string, and wrote nothing
C36_Witness ==
    \E o, p \in CallIds \cap OpIds :
        /\ C36_BodyRead(o) /\ received[o].contentType # << >>
        /\ received[o].contentType[1] = "application/json"
        /\ ops[o].pc = "resolved" /\ ops[o].writes = 1
        /\ C36_BodyRead(p) /\ received[p].contentType = <<"text/html">>
        /\ received[p].body = received[o].body
        /\ ops[p].pc = "resolved" /\ ops[p].ret.data.t = "string"
        /\ cart = EmptyCart

\* C37: in every reachable state the value of $cart passes the shape check
\* of isValidCart, items an array and item_count a number, whatever the
\* operations called and whatever the server answered, a malformed cart
\* included.
C37_CartPassesShapeCheck == isValidCart(cart)

\* the operations awaiting a transport call
C38_Awaiting == { o \in OpIds : ops[o].pc = "await" }
\* operation o is an updateCartItem that delegated to updateQuantity
C38_Delegated(o) ==
    ops[o].entry.name = "updateCartItem" /\ ops[o].running = "updateQuantity"
\* the states the run of a delegating updateCartItem(cartItemKey, quantity)
\* goes through when called now: after its increment, after the call of
\* updateQuantity, after its own decrement
C38_RunOf(cartItemKey, quantity) ==
    LET S1 == incrementLoadingState(
                  Begin([name |-> "updateCartItem", cartItemKey |-> cartItemKey,
                         quantity |-> JNum(quantity), variationId |-> JUndefined,
                         variation |-> JUndefined]))
        S2 == updateQuantityCall(S1, cartItemKey, quantity)
    IN << S1, S2, decrementLoadingState(S2) >>

\* C38: whenever control is back in the event loop the loading counter is
\* the number of cart operations awaiting a transport call and
\* $cartIsLoading tells whether there is one; while an updateCartItem that
\* delegated to updateQuantity awaits, the counter is positive and
\* $cartIsLoading true, although updateCartItem has already made its own
\* decrement; and in the synchronous run of a delegating updateCartItem,
\* started from any state, the counter is never 0 and $cartIsLoading never
\* false after the first increment.
C38_CounterCountsAwaiting ==
    /\ loadingOperationsCount = Cardinality(C38_Awaiting)
    /\ cartIsLoading = (C38_Awaiting # {})
    /\ \A o \in OpIds :
           (C38_Delegated(o) /\ ops[o].pc = "await") =>
               /\ ops[o].incs = 2 /\ ops[o].decs = 1
               /\ loadingOperationsCount > 0 /\ cartIsLoading
    /\ \A k \in Keys, q \in {q \in Quantities : q > 0} :
           LET run == C38_RunOf(k, q)
           IN \A n \in 1..3 : run[n].count > 0 /\ run[n].loading
\* a delegated updateQuantity still awaits after updateCartItem decremented,
\* while another operation has already settled
C38_Witness ==
    \E o, p \in OpIds :
        /\ C38_Delegated(o) /\ ops[o].pc = "await" /\ ops[o].decs = 1
        /\ ops[p].pc = "resolved" /\ ops[p].seq > 0
        /\ loadingOperationsCount = 1

(***************************************************************************)
(* Properties of the fern-woo variant                                      *)
(***************************************************************************)
\* C39: in the fern-woo variant $cartIsLoading is true whenever at least
\* one operation is awaiting its transport call, also when several run at
\* once and one of them has finished.
C39_LoadingWhileAwaiting ==
    (\E o \in OpIds : fern.ops[o].pc = "await") => fern.cartIsLoading

====
